---- MODULE Spec2Model ----
(***************************************************************************)
(* Model of the blind WebSocket relay: the Redis room store                *)
(* (src/src/rooms/roomStore.ts), the connection limiters                   *)
(* (src/src/shredder/signaling.ts) and the protocol engine                 *)
(* (src/src/ws/handlers.ts).                                               *)
(*                                                                         *)
(* The relay is a single Node.js process with one ioredis client.  A       *)
(* handler runs synchronously up to its next `await` of a store call; the  *)
(* store call is a command appended to the client's pipeline (redisQ).     *)
(* Redis executes the commands in issue order and the replies resume the   *)
(* awaiting handlers in the same order: a Resume action executes the       *)
(* oldest command and runs the continuation of the handler awaiting it     *)
(* (the handler steps that could run between the execution and the reply   *)
(* neither read nor write the Redis keys, so they commute with the         *)
(* execution).  Message handlers of one socket are not serialised by the   *)
(* code: each 'message' event starts its own async handler.                *)
(***************************************************************************)
EXTENDS Integers, Sequences, FiniteSets, TLC

\* ---- bounds of the model ------------------------------------------------
NumConns == 3
MaxAdmitted == 2
NumIps == 2
NumRooms == 2
NumJtis == 2
MaxFrames == 2
MaxInflight == 2
MaxHttp == 1
MaxTime == 4
MaxMetered == 4
MaxFrameBytes == 3
MaxPingTime == 8
MaxPingInterval == 2
MaxPingTimeout == 3
MaxStoreCalls == 5
MaxExp == 10
MaxTokenLen == 52
NumSecrets == 3
MaxWsTime == 2
MaxWsTokens == 2
MaxCapacity == 3
MaxRefillTokens == 2
MaxRefillEveryMs == 2
MaxTakes == 3
MaxTakeTime == 5
MaxChargeTime == 2
MaxChargeFrames == 3
MaxRotation == 3

\* ---- program constants (scaled down) ------------------------------------
ROOM_MAX_PARTICIPANTS == 2
MAX_CONNS_PER_IP == 2
MAX_TOTAL_CONNECTIONS == 3
MAX_WS_MSG_BYTES == 2
MAX_MSGS_PER_10S == 2
MAX_BYTES_PER_10S == 3
REFILL_EVERY_MS == 2
WS_PING_INTERVAL_MS == 6
WS_PING_TIMEOUT_MS == 1
ROOM_KEY_TTL_MS == 2
QR_ROTATION_MS == 1
TOKEN_TTL_MS == 2
MAX_PARTICIPANTS == 2

Conns == 1..NumConns
Ips == 1..NumIps
Rooms == 1..NumRooms
Jtis == 1..NumJtis
Slots == 1..MaxInflight
None == 0
NoKey == -1
DiscSlot == 0
Cts == {"AAA", "BBB"}

VARIABLES
  \* Redis keys of the room store
  meta,        \* set of rooms whose room:<rid>:meta key exists
  members,     \* room:<rid>:members  (empty set = key absent)
  count,       \* room:<rid>:count    (NoKey = key absent)
  jtis,        \* room:<rid>:jtis     (empty set = key absent)
  jtiKeys,     \* set of <<rid, jti>> whose room:<rid>:jti:<jti> marker exists
  \* the ioredis client
  redisQ,      \* commands issued and not yet executed by Redis
  \* in-process engine state
  connections, \* keys of the `connections` map
  ctxRoom,     \* ctx.roomId (None = undefined)
  ctxLabel,    \* ctx.label as the n of "P<n>" (None = undefined)
  localDom,    \* keys of the `localRooms` map
  localConns,  \* localRooms.get(rid).conns
  ipCounts,    \* IpConnectionLimiter.counts (0 = no entry)
  globalCount, \* GlobalConnectionLimiter.count
  \* sockets
  sock,        \* "new" (id unused), "open" (readyState 1) or "closed"
  connIp,      \* req.ip of the socket
  disconnected,\* the per-socket `disconnected` flag
  evClose,     \* a 'close' event is due on this socket
  evError,     \* an 'error' event is due on this socket
  hand,        \* in-flight async handlers: hand[c][slot]
  frames,      \* number of frames the client of c has sent
  \* tokens and identifiers
  tokRid,      \* rid of the minted token with this jti (None = not minted)
  tokExpired,  \* tokens whose exp has passed
  nextRoom,    \* next fresh room id
  httpCalls,   \* number of HTTP requests served
  \* observation
  sent,        \* frames written to each socket by the last step
  wrote,       \* the socket writes and closes of the last step, in program order
  evt,         \* what the last step was
  decs,        \* per connection: how often onDisconnect's finally block ran
  leaves,      \* per connection: roomStore.leave calls issued by onDisconnect
  accepts,     \* per jti: number of JOIN_REQUESTs presenting it answered JOINED
  trace,       \* whether sent and evt are recorded (fixed by the initial state)
  marked,      \* <<rid, jti>> for which markTokenJtiUsed returned true, until its marker's TTL expires
  wiped,       \* those of marked whose room a leave has deleted since
  refused,     \* those of marked for which a later markTokenJtiUsed returned false
  fullFor,     \* <<conn, jti>> of the JOIN_REQUESTs answered ERR_ROOM_FULL
  lastStats,   \* per room: participants of the last ROOM_STATS broadcast for it (0: none)
  \* the clock and the per-connection rate buckets
  now,         \* Date.now(), in ticks
  msgBucket,   \* ctx.msgBucket.state
  bytesBucket, \* ctx.bytesBucket.state
  charged,     \* per connection: messages and bytes the buckets took in each of
               \* the last REFILL_EVERY_MS ticks, the current tick first
  burst,       \* per connection: when a message was last taken from a full
               \* messages bucket, and the messages taken since then
  rx,          \* connection and byte length of the frame the last step received
  \* keep-alive
  pingCfg,     \* config.WS_PING_INTERVAL_MS and config.WS_PING_TIMEOUT_MS, in ticks
  sweptAt,     \* when the pingTimer callback last ran
  lastPongMs,  \* ctx.lastPongMs
  awaitingPong,\* ctx.awaitingPong
  pingAt,      \* per connection: when the first ping since its last pong was sent
  \* the connection to Redis
  storeUp,     \* whether Redis is reachable
  unhandled,   \* a promise nothing awaits has been rejected
  touches,     \* per room: the roomStore.touch calls the message handler made
  \* the TTLs of the room keys
  pexpireAt,   \* per room and key: the time the key expires at (NoKey = no TTL)
  ret,         \* the last RoomStore call made on its own, and its result
  storeCalls,  \* number of such calls
  \* a join token on its way from mintJoinToken to verifyJoinToken
  tokIn,       \* the rid and exp mintJoinToken is called with, and config.JOIN_TOKEN_SECRET
  minted,      \* the payload mintJoinToken signed
  tokStr,      \* the token string, as character codes
  flipAt,      \* position and bit of the character changed in transit
  verdict,     \* what verifyJoinToken returned for tokStr
  \* the standalone server (server/ws.ts over server/rooms.ts, in-memory store)
  memoryStore, \* RoomStore.memoryStore: per room id, whether it has an entry and its participants
  usedTokens,  \* keys of the usedTokens map (the value is the token's own exp)
  conns,       \* keys of the conns map
  wsRoomId,    \* ctx.roomId of each connection (None = undefined)
  wsHand,      \* the connection's message handler, where it awaits
  wsNow,       \* Date.now() of the standalone server, in ticks
  wsTokens,    \* token strings GET /rooms/:roomId/token and JOINED have handed out
  wsNextRoom,  \* next fresh room id of POST /rooms
  wsNextConn,  \* next fresh connection id
  wsAccepted,  \* token strings a JOIN_REQUEST presenting them was accepted with
  wsLate,      \* connections whose last JOIN_REQUEST presented a token string that was
               \* in wsAccepted and not expired when the frame arrived
  wsEvt,       \* what the last step of the standalone server was
  \* a TokenBucket on its own
  tbCfg,       \* the opts it was constructed with
  tb,          \* its state
  tbRet,       \* the last take: its argument, its result and the state it found
  \* the router's rotation timers
  qrCfg,       \* config.QR_ROTATION_MS of this run
  qrTimer,     \* per room: when the entry's setInterval fires next (NoKey = no timer)
  qrToken,     \* per room: the entry's qrToken and qrExpUnixMs
  qrMinted,    \* how many tokens the router has minted
  \* the process and its shutdown handler
  featureShutdown, \* config.FEATURE_GRACEFUL_SHUTDOWN of this run
  shutdownTimeout, \* deadlines of the shutdownTimeout timers that are set
  awaitingClose,   \* gracefulShutdown invocations at `await fastify.close()`
  exitCode,        \* "none" while the process runs, else how it ended
  signalAt,        \* when the first SIGTERM / SIGINT arrived (NoKey = none yet)
  signals          \* how many signals have arrived

storeVars == <<meta, members, count, jtis, jtiKeys>>
pipeVars == <<redisQ>>
engineVars == <<connections, ctxRoom, ctxLabel, localDom, localConns>>
meterVars == <<ipCounts, globalCount>>
sockVars == <<sock, connIp, disconnected, evClose, evError>>
tokVars == <<tokRid, tokExpired>>
obsVars == <<decs, leaves, accepts, trace>>
histVars == <<marked, wiped, refused, fullFor, lastStats>>
bucketVars == <<now, msgBucket, bytesBucket, charged, burst, rx>>
pingVars == <<sweptAt, lastPongMs, awaitingPong, pingAt>>
downVars == <<storeUp, unhandled, touches>>
ttlVars == <<pexpireAt, ret, storeCalls>>
codecVars == <<tokIn, minted, tokStr, flipAt, verdict>>
legacyVars == <<memoryStore, usedTokens, conns, wsRoomId, wsHand, wsNow, wsTokens,
                wsNextRoom, wsNextConn, wsAccepted, wsLate, wsEvt>>
tbVars == <<tbCfg, tb, tbRet>>
rotVars == <<qrCfg, qrTimer, qrToken, qrMinted>>
sdVars == <<featureShutdown, shutdownTimeout, awaitingClose, exitCode, signalAt, signals>>
sideVars == <<downVars, ttlVars, codecVars, legacyVars, tbVars, rotVars, sdVars>>
auxVars == <<bucketVars, pingCfg, pingVars, sideVars>>
vars == <<meta, members, count, jtis, jtiKeys, redisQ, connections,
          ctxRoom, ctxLabel, localDom, localConns, ipCounts, globalCount,
          sock, connIp, disconnected, evClose, evError, hand, frames,
          tokRid, tokExpired, nextRoom, httpCalls, sent, wrote, evt, decs,
          leaves, accepts, trace, marked, wiped, refused, fullFor, lastStats,
          now, msgBucket, bytesBucket, charged, burst, rx,
          pingCfg, sweptAt, lastPongMs, awaitingPong, pingAt,
          storeUp, unhandled, touches, pexpireAt, ret, storeCalls,
          tokIn, minted, tokStr, flipAt, verdict,
          memoryStore, usedTokens, conns, wsRoomId, wsHand, wsNow, wsTokens,
          wsNextRoom, wsNextConn, wsAccepted, wsLate, wsEvt, tbCfg, tb, tbRet,
          qrCfg, qrTimer, qrToken, qrMinted,
          featureShutdown, shutdownTimeout, awaitingClose, exitCode, signalAt, signals>>

\* ---- records --------------------------------------------------------------
Idle == [pc |-> "idle", rid |-> None, jti |-> None]
Handler(pc, rid, jti) == [pc |-> pc, rid |-> rid, jti |-> jti]
Cmd(op, rid, conn, jti, c, s) ==
  [op |-> op, rid |-> rid, conn |-> conn, jti |-> jti, h |-> <<c, s>>]
Resp(cmd, ok, n, code) ==
  [op |-> cmd.op, rid |-> cmd.rid, jti |-> cmd.jti, h |-> cmd.h,
   ok |-> ok, n |-> n, code |-> code]
Frame(t, rid, x, retryable) == [t |-> t, rid |-> rid, x |-> x, retryable |-> retryable]
\* (mutant) every error is retryable
ErrorFrameRetryable(code, retryable) == Frame("ERROR", None, code, TRUE)
ErrorFrame(code, retryable) == Frame("ERROR", None, code, retryable)
NoEvt == [kind |-> "step", conn |-> None, rid |-> None, jti |-> None, code |-> "", x |-> "",
          slow |-> {}]
EvtC(kind, conn, rid, jti, code) ==
  IF trace THEN [kind |-> kind, conn |-> conn, rid |-> rid, jti |-> jti, code |-> code,
                 x |-> "", slow |-> {}]
  ELSE NoEvt
Evt(kind, conn, rid, jti) == EvtC(kind, conn, rid, jti, "")
NoSent == [c \in Conns |-> << >>]
Ages == 0..(REFILL_EVERY_MS - 1)
NoBucket == [tokens |-> 0, lastRefillMs |-> 0]
NoOpts == [capacity |-> 0, refillTokens |-> 0, refillEveryMs |-> 0]
NoTake == [seq |-> 0, n |-> 0, ok |-> FALSE, found |-> NoBucket, at |-> 0]
NoCharge == [msgs |-> 0, bytes |-> 0]
NoBurst == [start |-> 0, n |-> 0]
NoRx == [conn |-> None, bytes |-> 0]
NoPing == -1
Wrote(c, t) == [conn |-> c, t |-> t]
KeyNames == {"meta", "members", "count", "jtis"}
NoTokIn == [rid |-> None, exp |-> 0, secret |-> 0]
NoPayload == [rid |-> None, exp |-> 0, jti |-> None]
NoFlip == << >>
NoVerdict == [ok |-> FALSE, code |-> "", payload |-> NoPayload]
NoRet == [op |-> "", rid |-> None, conn |-> None, ok |-> FALSE, n |-> 0, label |-> None,
          code |-> "", was |-> FALSE]

NoTok == [rid |-> None, exp |-> 0]
NoQr == [jti |-> None, exp |-> 0]
QrTok(jti, exp) == [jti |-> jti, exp |-> exp]
NoRoom == [has |-> FALSE, participants |-> {}]
WsHandler(pc, rid, tok, ok, code) == [pc |-> pc, rid |-> rid, tok |-> tok, ok |-> ok, code |-> code]
WsIdle == WsHandler("idle", None, NoTok, FALSE, "")
WsEvent(kind, conn, rid, tok, code) == [kind |-> kind, conn |-> conn, rid |-> rid, tok |-> tok, code |-> code]
NoWsEvt == WsEvent("", None, None, NoTok, "")

InitBase ==
  /\ meta = {}
  /\ members = [r \in Rooms |-> {}]
  /\ count = [r \in Rooms |-> NoKey]
  /\ jtis = [r \in Rooms |-> {}]
  /\ jtiKeys = {}
  /\ redisQ = << >>
  /\ connections = {}
  /\ ctxRoom = [c \in Conns |-> None]
  /\ ctxLabel = [c \in Conns |-> None]
  /\ localDom = {}
  /\ localConns = [r \in Rooms |-> {}]
  /\ ipCounts = [i \in Ips |-> 0]
  /\ globalCount = 0
  /\ sock = [c \in Conns |-> "new"]
  /\ connIp = [c \in Conns |-> None]
  /\ disconnected = [c \in Conns |-> FALSE]
  /\ evClose = [c \in Conns |-> FALSE]
  /\ evError = [c \in Conns |-> FALSE]
  /\ hand = [c \in Conns |-> [s \in {DiscSlot} \cup Slots |-> Idle]]
  /\ frames = [c \in Conns |-> 0]
  /\ tokRid = [j \in Jtis |-> None]
  /\ tokExpired = {}
  /\ nextRoom = 1
  /\ httpCalls = 0
  /\ sent = NoSent
  /\ wrote = << >>
  /\ evt = NoEvt
  /\ decs = [c \in Conns |-> 0]
  /\ leaves = [c \in Conns |-> 0]
  /\ accepts = [j \in Jtis |-> 0]
  /\ marked = {}
  /\ wiped = {}
  /\ refused = {}
  /\ fullFor = {}
  /\ lastStats = [r \in Rooms |-> 0]
  /\ now = 0
  /\ msgBucket = [c \in Conns |-> NoBucket]
  /\ bytesBucket = [c \in Conns |-> NoBucket]
  /\ charged = [c \in Conns |-> [a \in Ages |-> NoCharge]]
  /\ burst = [c \in Conns |-> NoBurst]
  /\ rx = NoRx
  /\ sweptAt = 0
  /\ lastPongMs = [c \in Conns |-> 0]
  /\ awaitingPong = [c \in Conns |-> FALSE]
  /\ pingAt = [c \in Conns |-> NoPing]
  /\ storeUp = TRUE
  /\ unhandled = FALSE
  /\ touches = [r \in Rooms |-> 0]
  /\ pexpireAt = [r \in Rooms |-> [k \in KeyNames |-> NoKey]]
  /\ ret = NoRet
  /\ storeCalls = 0
  /\ minted = NoPayload
  /\ tokStr = << >>
  /\ flipAt = NoFlip
  /\ verdict = NoVerdict
  /\ memoryStore = [r \in Rooms |-> NoRoom]
  /\ usedTokens = {}
  /\ conns = {}
  /\ wsRoomId = [c \in Conns |-> None]
  /\ wsHand = [c \in Conns |-> WsIdle]
  /\ wsNow = 0
  /\ wsTokens = {}
  /\ wsNextRoom = 1
  /\ wsNextConn = 1
  /\ wsAccepted = {}
  /\ wsLate = {}
  /\ wsEvt = NoWsEvt
  /\ tbRet = NoTake
  /\ qrTimer = [r \in Rooms |-> NoKey]
  /\ qrToken = [r \in Rooms |-> NoQr]
  /\ qrMinted = 0
  /\ shutdownTimeout = {}
  /\ awaitingClose = 0
  /\ exitCode = "none"
  /\ signalAt = NoKey
  /\ signals = 0

DefaultPing == [interval |-> WS_PING_INTERVAL_MS, timeout |-> WS_PING_TIMEOUT_MS]
NoTb == tbCfg = NoOpts /\ tb = NoBucket
NoShutdownHandler == featureShutdown = FALSE
FixedQr == qrCfg = QR_ROTATION_MS /\ NoShutdownHandler
Init == InitBase /\ trace = TRUE /\ pingCfg = DefaultPing /\ tokIn = NoTokIn /\ NoTb /\ FixedQr
InitStore == InitBase /\ trace = FALSE /\ pingCfg = DefaultPing /\ tokIn = NoTokIn /\ NoTb /\ FixedQr
\* the keep-alive with the timeout below the interval and above it
PingCfgs == {[interval |-> MaxPingInterval, timeout |-> 1],
             [interval |-> 1, timeout |-> MaxPingTimeout],
             [interval |-> MaxPingInterval, timeout |-> MaxPingTimeout]}
InitPing == InitBase /\ trace = TRUE /\ pingCfg \in PingCfgs /\ tokIn = NoTokIn /\ NoTb /\ FixedQr
\* mintJoinToken called for any room and expiry time, under any secret
Exps == (MaxExp - 1)..MaxExp
Secrets == 1..NumSecrets
InitCodec ==
  /\ InitBase /\ trace = TRUE /\ pingCfg = DefaultPing
  /\ tokIn \in [rid : Rooms, exp : Exps, secret : Secrets]
  /\ NoTb /\ FixedQr
\* a TokenBucket constructed at time 0 with any capacity, refill and period
Opts == [capacity : 1..MaxCapacity, refillTokens : 1..MaxRefillTokens,
         refillEveryMs : 1..MaxRefillEveryMs]
InitTake ==
  /\ InitBase /\ trace = TRUE /\ pingCfg = DefaultPing /\ tokIn = NoTokIn
  /\ tbCfg \in Opts
  /\ tb = [tokens |-> tbCfg.capacity, lastRefillMs |-> 0]
  /\ FixedQr

\* ---- IpConnectionLimiter / GlobalConnectionLimiter -------------------------
IpTryInc(ip) == ipCounts[ip] < MAX_CONNS_PER_IP
IpInc(cnts, ip) == [cnts EXCEPT ![ip] = @ + 1]
\* (mutant) a dec that leaves the ip's count as it is
IpDecNothing(cnts, ip) == cnts
IpDec(cnts, ip) == [cnts EXCEPT ![ip] = IF @ <= 1 THEN 0 ELSE @ - 1]
GlobalTryInc == globalCount < MAX_TOTAL_CONNECTIONS
\* (mutant) a dec that gives nothing back
GlobalDecNothing(n) == n

GlobalDec(n) == IF n > 0 THEN n - 1 ELSE n

\* ---- RoomStore: the effect of each command on the Redis keys --------------
\* A store state is a record of the five key families.
Store == [meta |-> meta, members |-> members, count |-> count, jtis |-> jtis,
          jtiKeys |-> jtiKeys]
CountOf(st, rid) == IF st.count[rid] = NoKey THEN 0 ELSE st.count[rid]

\* createRoom: MULTI hset meta, sadd members, set count "1", del jtis
createRoomStore(st, rid, conn) ==
  [st EXCEPT !.meta = @ \cup {rid},
             !.members[rid] = @ \cup {conn},
             !.count[rid] = 1,
             !.jtis[rid] = {}]

\* createRoomEmpty: MULTI hset meta, set count "0"
createRoomEmptyStore(st, rid) ==
  [st EXCEPT !.meta = @ \cup {rid}, !.count[rid] = 0]

\* tryJoin Lua script: the reply
tryJoinReply(st, rid, conn) ==
  LET cur == CountOf(st, rid) IN
  IF rid \notin st.meta
    THEN [ok |-> FALSE, n |-> 0, label |-> None, code |-> "ERR_NO_ROOM"]
  ELSE IF conn \in st.members[rid]
    THEN [ok |-> TRUE, n |-> cur, label |-> cur, code |-> "OK"]
  ELSE IF cur >= ROOM_MAX_PARTICIPANTS
    THEN [ok |-> FALSE, n |-> cur, label |-> None, code |-> "ERR_ROOM_FULL"]
  ELSE [ok |-> TRUE, n |-> cur + 1, label |-> cur + 1, code |-> "OK"]

\* (mutant) a join that adds and counts a connection id every time
tryJoinStoreAgain(st, rid, conn) ==
  LET cur == CountOf(st, rid) IN
  IF rid \notin st.meta \/ cur >= ROOM_MAX_PARTICIPANTS
    THEN st
    ELSE [st EXCEPT !.members[rid] = @ \cup {conn}, !.count[rid] = cur + 1]

\* tryJoin Lua script: the keys afterwards
tryJoinStore(st, rid, conn) ==
  LET cur == CountOf(st, rid) IN
  IF rid \notin st.meta \/ conn \in st.members[rid] \/ cur >= ROOM_MAX_PARTICIPANTS
    THEN st
    ELSE [st EXCEPT !.members[rid] = @ \cup {conn}, !.count[rid] = cur + 1]

\* leave Lua script: the value of `cur` after the SREM / decrement
leaveCur(st, rid, conn) ==
  LET cur == CountOf(st, rid) IN
  IF conn \in st.members[rid] /\ cur > 0 THEN cur - 1 ELSE cur

\* leave Lua script: the reply (`remaining`)
leaveReply(st, rid, conn) ==
  IF rid \notin st.meta THEN 0
  ELSE IF leaveCur(st, rid, conn) <= 0 THEN 0 ELSE leaveCur(st, rid, conn)

\* (mutant) leave that removes the member without decrementing count
leaveStoreNoDecrement(st, rid, conn) ==
  IF rid \notin st.meta THEN st
  ELSE [st EXCEPT !.members[rid] = @ \ {conn}]

\* leave Lua script: the keys afterwards
leaveStore(st, rid, conn) ==
  IF rid \notin st.meta THEN st
  ELSE IF leaveCur(st, rid, conn) <= 0
    THEN [st EXCEPT !.jtiKeys = @ \ {<<rid, j>> : j \in st.jtis[rid]},
                    !.meta = @ \ {rid},
                    !.members[rid] = {},
                    !.count[rid] = NoKey,
                    !.jtis[rid] = {}]
    ELSE [st EXCEPT !.members[rid] = @ \ {conn},
                    !.count[rid] = IF conn \in st.members[rid] /\ CountOf(st, rid) > 0
                                     THEN leaveCur(st, rid, conn) ELSE @]

\* (mutant) a plain SET, without NX: it always reports OK
setAlwaysFresh(st, rid, jti) == TRUE

\* markTokenJtiUsed, first command: SET key "1" PX ttl NX
setNxFresh(st, rid, jti) == <<rid, jti>> \notin st.jtiKeys
\* (mutant) the marker is not stored
setNxStoreNothing(st, rid, jti) == st

setNxStore(st, rid, jti) == [st EXCEPT !.jtiKeys = @ \cup {<<rid, jti>>}]

\* markTokenJtiUsed, second command: MULTI sadd jtis, pexpire jtis
addJtiStore(st, rid, jti) == [st EXCEPT !.jtis[rid] = @ \cup {jti}]

\* the keys after a command
ApplyCmd(st, cmd) ==
  CASE cmd.op = "createRoom" -> createRoomStore(st, cmd.rid, cmd.conn)
    [] cmd.op = "createRoomEmpty" -> createRoomEmptyStore(st, cmd.rid)
    [] cmd.op = "tryJoin" -> tryJoinStore(st, cmd.rid, cmd.conn)
    [] cmd.op = "leave" -> leaveStore(st, cmd.rid, cmd.conn)
    [] cmd.op = "setnx" ->
         IF setNxFresh(st, cmd.rid, cmd.jti) THEN setNxStore(st, cmd.rid, cmd.jti) ELSE st
    [] cmd.op = "addjti" -> addJtiStore(st, cmd.rid, cmd.jti)
    [] OTHER -> st

\* the reply to a command
ReplyTo(st, cmd) ==
  CASE cmd.op = "tryJoin" ->
         LET r == tryJoinReply(st, cmd.rid, cmd.conn) IN Resp(cmd, r.ok, r.n, r.code)
    [] cmd.op = "leave" -> Resp(cmd, TRUE, leaveReply(st, cmd.rid, cmd.conn), "OK")
    [] cmd.op = "setnx" -> Resp(cmd, setNxFresh(st, cmd.rid, cmd.jti), 0, "OK")
    [] OTHER -> Resp(cmd, TRUE, 0, "OK")

\* Redis executes the oldest pipelined command: the keys afterwards
ExecHead ==
  LET st == ApplyCmd(Store, Head(redisQ))
  IN /\ meta' = st.meta
     /\ members' = st.members
     /\ count' = st.count
     /\ jtis' = st.jtis
     /\ jtiKeys' = st.jtiKeys

\* ... and its reply
HeadReply == ReplyTo(Store, Head(redisQ))
HeadIs(op) == redisQ # << >> /\ Head(redisQ).op = op

\* ---- connection admission ---------------------------------------------------
\* fastify.get("/ws") callback: a new socket from `ip`.
Admit(ip) ==
  /\ UNCHANGED <<storeVars, pipeVars, ctxRoom, ctxLabel, localDom, localConns,
                 disconnected, evClose, evError, hand, frames, tokVars,
                 nextRoom, httpCalls, obsVars, histVars>>
  /\ IF ~GlobalTryInc
       THEN /\ evt' = Evt("reject_global", None, None, None)
            /\ sent' = NoSent /\ wrote' = << >>
            /\ UNCHANGED <<connections, meterVars, sock, connIp>>
       ELSE IF ~IpTryInc(ip)
         THEN \* globalLimiter.tryInc() succeeded and is undone by dec()
              /\ evt' = Evt("reject_ip", None, None, None)
              /\ sent' = NoSent /\ wrote' = << >>
              /\ globalCount' = GlobalDec(globalCount + 1)
              /\ UNCHANGED <<connections, ipCounts, sock, connIp>>
         ELSE \E c \in Conns :
              /\ sock[c] = "new"
              /\ \A d \in Conns : d < c => sock[d] # "new"
              /\ globalCount' = globalCount + 1
              /\ ipCounts' = IpInc(ipCounts, ip)
              /\ connections' = connections \cup {c}
              /\ sock' = [sock EXCEPT ![c] = "open"]
              /\ connIp' = [connIp EXCEPT ![c] = ip]
              /\ sent' = (IF trace THEN [NoSent EXCEPT ![c] = <<Frame("HELLO", None, None, FALSE)>>]
                          ELSE NoSent)
              /\ wrote' = (IF trace THEN <<Wrote(c, "HELLO")>> ELSE << >>)
              /\ evt' = Evt("admit", c, None, None)

\* ---- sending ------------------------------------------------------------------
\* A send state: the frames written in this step, the sockets still open and
\* the writes and closes in the order the handler made them.
\* S is the set of sockets whose bufferedAmount exceeds MAX_WS_MSG_BYTES * 4
\* when the step runs.
OpenSet == {c \in Conns : sock[c] = "open"}
St0 == [out |-> NoSent, open |-> OpenSet, log |-> << >>]

\* wsSend: drop when the socket is not open or is a slow consumer
wsSend(st, S, c, f) ==
  IF c \in st.open /\ c \notin S
    THEN [st EXCEPT !.out[c] = Append(@, f), !.log = Append(@, Wrote(c, f.t))]
    ELSE st

\* (mutant) a close that does nothing
wsCloseNothing(st, c, why) == st

\* socket.close(code, reason) by the server
wsClose(st, c, why) ==
  IF c \in st.open
    THEN [st EXCEPT !.open = @ \ {c}, !.log = Append(@, Wrote(c, why))]
    ELSE st

\* (mutant) a broadcast that stops after the first id
broadcastFirstOnly(conset) ==
  IF conset = {} THEN {} ELSE {CHOOSE c \in conset : \A d \in conset : c <= d}

\* the ids broadcast sends to, given the router's conns of the room
broadcastTargets(conset) == conset

\* broadcast: rooms have at most 50 members, so the snapshot is one batch
\* and r.conns, a Set of ids inserted in an order the model does not keep, is
\* walked in ascending id order
RECURSIVE sendNext(_, _, _, _)
sendNext(st, S, ids, f) ==
  IF ids = {} THEN st
  ELSE LET c == CHOOSE x \in ids : \A y \in ids : x <= y
           st1 == IF c \notin connections \/ c \notin st.open THEN st
                  ELSE IF c \in S THEN wsClose(st, c, "1008 slow consumer")
                  ELSE [st EXCEPT !.out[c] = Append(@, f),
                                  !.log = Append(@, Wrote(c, f.t))]
       IN sendNext(st1, S, ids \ {c}, f)
broadcast(st, S, conset, f) == sendNext(st, S, broadcastTargets(conset), f)

\* ws.close() by the server: readyState leaves OPEN, 'close' will be emitted
CommitSend(st) ==
  /\ sent' = (IF trace THEN st.out ELSE NoSent)
  /\ wrote' = (IF trace THEN st.log ELSE << >>)
  /\ sock' = [c \in Conns |-> IF sock[c] = "open" /\ c \notin st.open THEN "closed" ELSE sock[c]]
  /\ evClose' = [c \in Conns |->
                   (sock[c] = "open" /\ c \notin st.open) \/ evClose[c]]

\* ---- tokens and the router ----------------------------------------------------
\* mintJoinToken: a fresh random jti bound to rid (the model tracks the first
\* NumJtis tokens minted; later ones are never presented by a client)
FreeJtis(tr) == {j \in Jtis : tr[j] = None}
mintJoinToken(tr, rid) ==
  IF FreeJtis(tr) = {} THEN tr
  ELSE [tr EXCEPT ![CHOOSE j \in FreeJtis(tr) : \A k \in FreeJtis(tr) : j <= k] = rid]

\* ensureLocalRoom: the token table after it
ensureLocalRoomTok(tr, rid) == IF rid \in localDom THEN tr ELSE mintJoinToken(tr, rid)

\* cleanupIfEmpty: the router entry goes unless it still has conns
cleanupIfEmpty(dom, lc, rid) == IF rid \in dom /\ lc[rid] # {} THEN dom ELSE dom \ {rid}

LowestIdle(c, s) ==
  /\ hand[c][s].pc = "idle"
  /\ \A t \in Slots : t < s => hand[c][t].pc # "idle"
CanRecv(c) == sock[c] = "open"

\* ---- socket.on("message") -----------------------------------------------------
\* oversized or schema-invalid frame: socket.close(1008 / 1003)
RecvBad(c) ==
  /\ CanRecv(c)
  /\ frames' = [frames EXCEPT ![c] = @ + 1]
  /\ \E why \in {"1008 message too large", "1003 invalid message"} :
       CommitSend(wsClose(St0, c, why))
  /\ evt' = NoEvt
  /\ UNCHANGED <<storeVars, pipeVars, engineVars, meterVars, connIp, disconnected,
                 evError, hand, tokVars, nextRoom, httpCalls, obsVars, histVars>>

\* a frame parseClientMsg rejects: socket.close(1003, "invalid message")
RecvInvalid(c) ==
  /\ CanRecv(c)
  /\ frames' = [frames EXCEPT ![c] = @ + 1]
  /\ CommitSend(wsClose(St0, c, "1003 invalid message"))
  /\ evt' = Evt("invalid", c, None, None)
  /\ UNCHANGED <<storeVars, pipeVars, engineVars, meterVars, connIp, disconnected,
                 evError, hand, tokVars, nextRoom, httpCalls, obsVars, histVars>>

RecvPing(c) ==
  /\ CanRecv(c)
  /\ frames' = [frames EXCEPT ![c] = @ + 1]
  /\ \E S \in SUBSET OpenSet :
       CommitSend(wsSend(St0, S, c, Frame("PONG", None, None, FALSE)))
  /\ evt' = Evt("ping", c, None, None)
  /\ UNCHANGED <<storeVars, pipeVars, engineVars, meterVars, connIp, disconnected,
                 evError, hand, tokVars, nextRoom, httpCalls, obsVars, histVars>>

\* ROOM_CREATE, up to `await roomStore.createRoom`
RecvRoomCreate(c, s) ==
  /\ CanRecv(c)
  /\ LowestIdle(c, s)
  /\ frames' = [frames EXCEPT ![c] = @ + 1]
  /\ UNCHANGED <<storeVars, engineVars, meterVars, connIp, disconnected,
                 evError, tokVars, httpCalls, obsVars, histVars>>
  /\ IF ctxRoom[c] # None
       THEN /\ \E S \in SUBSET OpenSet :
                 CommitSend(wsSend(St0, S, c, ErrorFrame("ERR_ALREADY_IN_ROOM", FALSE)))
            /\ evt' = EvtC("create_reply", c, None, None, "ERR_ALREADY_IN_ROOM")
            /\ UNCHANGED <<redisQ, hand, nextRoom>>
       ELSE /\ nextRoom <= NumRooms
            /\ nextRoom' = nextRoom + 1
            /\ redisQ' = Append(redisQ, Cmd("createRoom", nextRoom, c, None, c, s))
            /\ hand' = [hand EXCEPT ![c][s] = Handler("createRoom", nextRoom, None)]
            /\ CommitSend(St0)
            /\ evt' = NoEvt

\* ROOM_CREATE, after `await roomStore.createRoom`
ResumeCreateRoom ==
  /\ HeadIs("createRoom")
  /\ ExecHead
  /\ LET r == HeadReply
         c == r.h[1]
         s == r.h[2]
         rid == r.rid
         lc == [localConns EXCEPT ![rid] = @ \cup {c}]
     IN /\ redisQ' = Tail(redisQ)
        /\ tokRid' = ensureLocalRoomTok(tokRid, rid)
        /\ localDom' = localDom \cup {rid}
        /\ localConns' = lc
        /\ ctxRoom' = [ctxRoom EXCEPT ![c] = rid]
        /\ hand' = [hand EXCEPT ![c][s] = Idle]
        /\ \E S \in SUBSET OpenSet :
             CommitSend(broadcast(wsSend(St0, S, c, Frame("ROOM_CREATED", rid, None, FALSE)),
                                  S, lc[rid], Frame("ROOM_STATS", rid, 1, FALSE)))
        /\ lastStats' = [lastStats EXCEPT ![rid] = 1]
        /\ evt' = EvtC("create_reply", c, rid, None, "ROOM_CREATED")
  /\ UNCHANGED <<connections, ctxLabel, meterVars, connIp,
                 disconnected, evError, frames, tokExpired, nextRoom, httpCalls, obsVars,
                 marked, wiped, refused, fullFor>>

\* verifyJoinToken's verdict by the kind of token string: Malformed is one
\* that does not split into two non-empty halves or whose payload does not
\* parse, None one whose MAC does not match, any other a minted token.
Malformed == -2
verifyCode(tok) ==
  IF tok = Malformed THEN "ERR_TOKEN_FORMAT"
  ELSE IF tok = None THEN "ERR_TOKEN_MAC"
  ELSE "OK"

\* (mutant) the expiry check never fires
tokenExpiredNever(tok) == FALSE

\* `now > tok.payload.exp`
tokenExpired(tok) == tok \in tokExpired

\* the retryable flag of the handler's ERROR replies before markTokenJtiUsed
joinErrorRetryable(code) ==
  code \in {"ERR_TOKEN_FORMAT", "ERR_TOKEN_MAC", "ERR_TOKEN_EXPIRED"}

\* JOIN_REQUEST, up to `await roomStore.markTokenJtiUsed`.
RecvJoin(c, s, rid, tok) ==
  /\ CanRecv(c)
  /\ LowestIdle(c, s)
  /\ tok \in Jtis => tokRid[tok] # None
  /\ frames' = [frames EXCEPT ![c] = @ + 1]
  /\ UNCHANGED <<storeVars, engineVars, meterVars, connIp, disconnected,
                 evError, tokVars, nextRoom, httpCalls, obsVars, histVars>>
  /\ LET code == IF ctxRoom[c] # None THEN "ERR_ALREADY_IN_ROOM"
                 ELSE IF verifyCode(tok) # "OK" THEN verifyCode(tok)
                 ELSE IF tokRid[tok] # rid THEN "ERR_TOKEN_ROOM_MISMATCH"
                 ELSE IF tokenExpired(tok) THEN "ERR_TOKEN_EXPIRED"
                 ELSE "OK"
     IN IF code # "OK"
          THEN /\ \E S \in SUBSET OpenSet :
                    CommitSend(wsSend(St0, S, c,
                      ErrorFrame(code, joinErrorRetryable(code))))
               /\ evt' = EvtC("join_reply", c, rid, tok, code)
               /\ UNCHANGED <<redisQ, hand>>
          ELSE /\ redisQ' = Append(redisQ, Cmd("setnx", rid, c, tok, c, s))
               /\ hand' = [hand EXCEPT ![c][s] = Handler("markSet", rid, tok)]
               /\ CommitSend(St0)
               /\ evt' = NoEvt

\* markTokenJtiUsed after `await redis.set(key, "1", "PX", ttlMs, "NX")`
ResumeMarkSet ==
  /\ HeadIs("setnx")
  /\ ExecHead
  /\ LET r == HeadReply
         c == r.h[1]
         s == r.h[2]
     IN /\ IF r.ok
             THEN /\ redisQ' = Append(Tail(redisQ), Cmd("addjti", r.rid, c, r.jti, c, s))
                  /\ hand' = [hand EXCEPT ![c][s] = Handler("markAdd", r.rid, r.jti)]
                  /\ CommitSend(St0)
                  /\ evt' = NoEvt
             ELSE /\ redisQ' = Tail(redisQ)
                  /\ hand' = [hand EXCEPT ![c][s] = Idle]
                  /\ \E S \in SUBSET OpenSet :
                       CommitSend(wsSend(St0, S, c, ErrorFrame("ERR_TOKEN_REPLAY", TRUE)))
                  /\ evt' = EvtC("join_reply", c, r.rid, r.jti, "ERR_TOKEN_REPLAY")
        /\ refused' = (IF ~r.ok /\ <<r.rid, r.jti>> \in marked
                         THEN refused \cup {<<r.rid, r.jti>>} ELSE refused)
  /\ UNCHANGED <<engineVars, meterVars, connIp, disconnected, evError,
                 frames, tokVars, nextRoom, httpCalls, obsVars, marked, wiped, fullFor, lastStats>>

\* markTokenJtiUsed returns true; the handler awaits roomStore.tryJoin
ResumeMarkAdd ==
  /\ HeadIs("addjti")
  /\ ExecHead
  /\ LET r == HeadReply
         c == r.h[1]
         s == r.h[2]
     IN /\ redisQ' = Append(Tail(redisQ), Cmd("tryJoin", r.rid, c, r.jti, c, s))
        /\ hand' = [hand EXCEPT ![c][s] = Handler("tryJoin", r.rid, r.jti)]
        /\ evt' = NoEvt
        /\ marked' = marked \cup {<<r.rid, r.jti>>}
        /\ wiped' = wiped \ {<<r.rid, r.jti>>}
        /\ refused' = refused \ {<<r.rid, r.jti>>}
  /\ CommitSend(St0)
  /\ UNCHANGED <<engineVars, meterVars, connIp, disconnected, evError,
                 frames, tokVars, nextRoom, httpCalls, obsVars, fullFor, lastStats>>

\* (mutant) a failed tryJoin is never retryable
joinRetryableNever(code) == FALSE

\* the retryable flag of the ERROR frame after a failed tryJoin
joinRetryable(code) == code # "ERR_NO_ROOM"

\* JOIN_REQUEST, after `await roomStore.tryJoin`
ResumeTryJoin ==
  /\ HeadIs("tryJoin")
  /\ ExecHead
  /\ LET r == HeadReply
         c == r.h[1]
         s == r.h[2]
         rid == r.rid
         lc == [localConns EXCEPT ![rid] = @ \cup {c}]
     IN /\ redisQ' = Tail(redisQ)
        /\ hand' = [hand EXCEPT ![c][s] = Idle]
        /\ IF ~r.ok
             THEN /\ \E S \in SUBSET OpenSet :
                       CommitSend(wsSend(St0, S, c, ErrorFrame(r.code, joinRetryable(r.code))))
                  /\ evt' = EvtC("join_reply", c, rid, r.jti, r.code)
                  /\ fullFor' = (IF r.code = "ERR_ROOM_FULL"
                                   THEN fullFor \cup {<<c, r.jti>>} ELSE fullFor)
                  /\ UNCHANGED <<engineVars, tokRid, accepts, lastStats>>
             ELSE /\ tokRid' = mintJoinToken(ensureLocalRoomTok(tokRid, rid), rid)
                  /\ localDom' = localDom \cup {rid}
                  /\ localConns' = lc
                  /\ ctxRoom' = [ctxRoom EXCEPT ![c] = rid]
                  /\ ctxLabel' = [ctxLabel EXCEPT ![c] = r.n]
                  /\ accepts' = [accepts EXCEPT ![r.jti] = @ + 1]
                  /\ \E S \in SUBSET OpenSet :
                       CommitSend(
                         broadcast(
                           broadcast(
                             wsSend(St0, S, c, Frame("JOINED", rid, r.n, FALSE)),
                             S, lc[rid], Frame("SYSTEM_MSG", rid, "entered", FALSE)),
                           S, lc[rid], Frame("ROOM_STATS", rid, r.n, FALSE)))
                  /\ lastStats' = [lastStats EXCEPT ![rid] = r.n]
                  /\ evt' = EvtC("join_reply", c, rid, r.jti, "JOINED")
                  /\ UNCHANGED <<connections, fullFor>>
  /\ UNCHANGED <<meterVars, connIp, disconnected, evError,
                 frames, tokExpired, nextRoom, httpCalls, decs, leaves, trace,
                 marked, wiped, refused>>

\* leaveRoom after `await roomStore.leave`: the router and the broadcasts
leaveRoomDom(rid, remaining) ==
  IF remaining <= 0 THEN cleanupIfEmpty(localDom, localConns, rid) ELSE localDom
leaveRoomSend(st, S, c, rid, remaining) ==
  IF remaining <= 0 THEN st
  ELSE LET cs == IF rid \in localDom THEN localConns[rid] ELSE {}
           st1 == IF ctxLabel[c] # None
                    THEN broadcast(st, S, cs, Frame("SYSTEM_MSG", rid, "left", FALSE))
                    ELSE st
       IN broadcast(st1, S, cs, Frame("ROOM_STATS", rid, remaining, FALSE))

leaveRoomStats(rid, remaining) ==
  IF remaining <= 0 THEN lastStats ELSE [lastStats EXCEPT ![rid] = remaining]

\* the leave script's `if cur <= 0` branch ran: the room's keys were deleted
leaveDeletesRoom(cmd) == cmd.rid \in meta /\ leaveCur(Store, cmd.rid, cmd.conn) <= 0
wipedBy(cmd) ==
  IF leaveDeletesRoom(cmd) THEN wiped \cup {p \in marked : p[1] = cmd.rid} ELSE wiped

\* LEAVE, up to `await roomStore.leave` (or to the end when not in that room)
\* leaveRoom's guard: `if (ctx.roomId !== roomId) return`
\* (mutant) no LEAVE is taken to name another room
notCurrentRoomNever(c, rid) == FALSE
notCurrentRoom(c, rid) == ctxRoom[c] # rid

RecvLeave(c, s, rid) ==
  /\ CanRecv(c)
  /\ LowestIdle(c, s)
  /\ frames' = [frames EXCEPT ![c] = @ + 1]
  /\ UNCHANGED <<storeVars, connections, ctxLabel, localDom, meterVars, connIp,
                 disconnected, evError, tokVars, nextRoom, httpCalls, obsVars, histVars>>
  /\ IF notCurrentRoom(c, rid)
       THEN /\ \E S \in SUBSET OpenSet :
                 CommitSend(wsSend(St0, S, c, Frame("LEFT", rid, None, FALSE)))
            /\ evt' = EvtC("leave_reply", c, rid, None, "NOT_MEMBER")
            /\ UNCHANGED <<redisQ, hand, ctxRoom, localConns>>
       ELSE /\ ctxRoom' = [ctxRoom EXCEPT ![c] = None]
            /\ localConns' = [localConns EXCEPT ![rid] = @ \ {c}]
            /\ redisQ' = Append(redisQ, Cmd("leave", rid, c, None, c, s))
            /\ hand' = [hand EXCEPT ![c][s] = Handler("leave", rid, None)]
            /\ CommitSend(St0)
            /\ evt' = NoEvt

\* LEAVE, after `await roomStore.leave`
ResumeLeave ==
  /\ HeadIs("leave")
  /\ ExecHead
  /\ Head(redisQ).h[2] # DiscSlot
  /\ LET r == HeadReply
         c == r.h[1]
         s == r.h[2]
     IN /\ redisQ' = Tail(redisQ)
        /\ hand' = [hand EXCEPT ![c][s] = Idle]
        /\ localDom' = leaveRoomDom(r.rid, r.n)
        /\ localConns' = [localConns EXCEPT ![r.rid] =
                            IF r.rid \in leaveRoomDom(r.rid, r.n) THEN @ ELSE {}]
        /\ \E S \in SUBSET OpenSet :
             CommitSend(wsSend(leaveRoomSend(St0, S, c, r.rid, r.n), S, c,
                               Frame("LEFT", r.rid, None, FALSE)))
        /\ evt' = EvtC("leave_reply", c, r.rid, None, "LEFT")
  /\ wiped' = wipedBy(Head(redisQ))
  /\ lastStats' = leaveRoomStats(HeadReply.rid, HeadReply.n)
  /\ UNCHANGED <<connections, ctxRoom, ctxLabel, meterVars, connIp, disconnected,
                 evError, frames, tokVars, nextRoom, httpCalls, obsVars, marked, refused, fullFor>>

\* APP_MSG: wholly synchronous
RecvAppMsg(c, rid, ct, tooLarge) ==
  /\ CanRecv(c)
  /\ frames' = [frames EXCEPT ![c] = @ + 1]
  /\ LET code == IF ctxRoom[c] # rid THEN "ERR_NOT_IN_ROOM"
                 ELSE IF tooLarge THEN "ERR_CIPHERTEXT_TOO_LARGE"
                 ELSE "OK"
         cs == IF rid \in localDom THEN localConns[rid] ELSE {}
     IN \E S \in SUBSET OpenSet :
             /\ CommitSend(IF code # "OK"
                             THEN wsSend(St0, S, c, ErrorFrame(code, FALSE))
                             ELSE broadcast(St0, S, cs, Frame("APP_MSG", rid, ct, FALSE)))
             /\ evt' = (IF trace
                          THEN [EvtC("app_msg", c, rid, None, code) EXCEPT
                                  !.x = ct,
                                  !.slow = IF code = "OK" THEN S \cap cs ELSE {}]
                        ELSE NoEvt)
  /\ UNCHANGED <<storeVars, pipeVars, engineVars, meterVars, connIp, disconnected,
                 evError, hand, tokVars, nextRoom, httpCalls, obsVars, histVars>>

\* ---- sockets going down -------------------------------------------------------
\* the peer closes, or the server's terminate(): 'close' will be emitted
SocketClose(c) ==
  /\ sock[c] = "open"
  /\ sock' = [sock EXCEPT ![c] = "closed"]
  /\ evClose' = [evClose EXCEPT ![c] = TRUE]
  /\ sent' = NoSent /\ wrote' = << >>
  /\ evt' = NoEvt
  /\ UNCHANGED <<storeVars, pipeVars, engineVars, meterVars, connIp, disconnected,
                 evError, hand, frames, tokVars, nextRoom, httpCalls, obsVars, histVars>>

\* a socket error: 'error' and 'close' will both be emitted
SocketError(c) ==
  /\ sock[c] = "open"
  /\ sock' = [sock EXCEPT ![c] = "closed"]
  /\ evClose' = [evClose EXCEPT ![c] = TRUE]
  /\ evError' = [evError EXCEPT ![c] = TRUE]
  /\ sent' = NoSent /\ wrote' = << >>
  /\ evt' = NoEvt
  /\ UNCHANGED <<storeVars, pipeVars, engineVars, meterVars, connIp, disconnected,
                 hand, frames, tokVars, nextRoom, httpCalls, obsVars, histVars>>

\* onDisconnect's `finally` block
FinallyDisconnect(c) ==
  /\ connections' = connections \ {c}
  /\ ipCounts' = IpDec(ipCounts, connIp[c])
  /\ globalCount' = GlobalDec(globalCount)
  /\ decs' = [decs EXCEPT ![c] = @ + 1]

\* (mutant) handlers without the once-flag
NeverDisconnected(c) == FALSE

\* the `disconnected` once-flag test of the 'close' and 'error' handlers
AlreadyDisconnected(c) == disconnected[c]

\* the body shared by the 'close' and 'error' handlers:
\* if (disconnected) return; disconnected = true; await onDisconnect(ctx)
DisconnectBody(c) ==
  IF AlreadyDisconnected(c)
    THEN UNCHANGED <<redisQ, engineVars, meterVars, disconnected, hand, decs, leaves, accepts>>
    ELSE /\ disconnected' = [disconnected EXCEPT ![c] = TRUE]
         /\ IF ctxRoom[c] # None
              THEN \* leaveRoom up to `await roomStore.leave`
                   /\ ctxRoom' = [ctxRoom EXCEPT ![c] = None]
                   /\ localConns' = [localConns EXCEPT ![ctxRoom[c]] = @ \ {c}]
                   /\ redisQ' = Append(redisQ, Cmd("leave", ctxRoom[c], c, None, c, DiscSlot))
                   /\ hand' = [hand EXCEPT ![c][DiscSlot] = Handler("leave", ctxRoom[c], None)]
                   /\ leaves' = [leaves EXCEPT ![c] = @ + 1]
                   /\ UNCHANGED <<connections, ctxLabel, localDom, meterVars, decs, accepts>>
              ELSE /\ FinallyDisconnect(c)
                   /\ UNCHANGED <<redisQ, ctxRoom, ctxLabel, localDom, localConns, hand,
                                  leaves, accepts>>

\* socket.on("close")
OnClose(c) ==
  /\ evClose[c]
  /\ evClose' = [evClose EXCEPT ![c] = FALSE]
  /\ DisconnectBody(c)
  /\ sent' = NoSent /\ wrote' = << >>
  /\ evt' = NoEvt
  /\ UNCHANGED <<storeVars, sock, connIp, evError, frames, tokVars, nextRoom,
                 httpCalls, trace, histVars>>

\* socket.on("error")
OnError(c) ==
  /\ evError[c]
  /\ evError' = [evError EXCEPT ![c] = FALSE]
  /\ DisconnectBody(c)
  /\ sent' = NoSent /\ wrote' = << >>
  /\ evt' = NoEvt
  /\ UNCHANGED <<storeVars, sock, connIp, evClose, frames, tokVars, nextRoom,
                 httpCalls, trace, histVars>>

\* onDisconnect after leaveRoom's `await roomStore.leave`, then `finally`
ResumeDisconnect ==
  /\ HeadIs("leave")
  /\ ExecHead
  /\ Head(redisQ).h[2] = DiscSlot
  /\ LET r == HeadReply
         c == r.h[1]
     IN /\ redisQ' = Tail(redisQ)
        /\ hand' = [hand EXCEPT ![c][DiscSlot] = Idle]
        /\ localDom' = leaveRoomDom(r.rid, r.n)
        /\ \E S \in SUBSET OpenSet : CommitSend(leaveRoomSend(St0, S, c, r.rid, r.n))
        /\ FinallyDisconnect(c)
        /\ evt' = Evt("disconnect_done", c, r.rid, None)
  /\ wiped' = wipedBy(Head(redisQ))
  /\ lastStats' = leaveRoomStats(HeadReply.rid, HeadReply.n)
  /\ UNCHANGED <<ctxRoom, ctxLabel, localConns, connIp, disconnected, evError, frames,
                 tokVars, nextRoom, httpCalls, leaves, accepts, trace, marked, refused, fullFor>>

\* ---- HTTP surface ---------------------------------------------------------------
\* The HTTP routes share the Redis client but touch no engine state, and a
\* client may send its request at any moment: the step below is the moment
\* Redis executes the route's command.
\* POST /rooms: createRoomEmpty on a fresh id
HttpCreateRoom ==
  /\ httpCalls < MaxHttp
  /\ nextRoom <= NumRooms
  /\ httpCalls' = httpCalls + 1
  /\ nextRoom' = nextRoom + 1
  /\ LET st == createRoomEmptyStore(Store, nextRoom)
     IN /\ meta' = st.meta
        /\ count' = st.count
        /\ UNCHANGED <<members, jtis, jtiKeys>>
  /\ sent' = NoSent /\ wrote' = << >>
  /\ evt' = NoEvt
  /\ UNCHANGED <<pipeVars, engineVars, meterVars, sockVars, hand, frames,
                 tokVars, obsVars, histVars>>

\* GET /rooms/:roomId/token: mints when roomExists (404 otherwise)
HttpGetToken(rid) ==
  /\ rid \in meta
  /\ FreeJtis(tokRid) # {}
  /\ tokRid' = mintJoinToken(tokRid, rid)
  /\ sent' = NoSent /\ wrote' = << >>
  /\ evt' = NoEvt
  /\ UNCHANGED <<storeVars, pipeVars, engineVars, meterVars, sockVars, hand, frames,
                 tokExpired, nextRoom, httpCalls, obsVars, histVars>>

\* ---- time -------------------------------------------------------------------------
\* the clock passes a token's exp
TokenExpire(j) ==
  /\ tokRid[j] # None
  /\ j \notin tokExpired
  /\ tokExpired' = tokExpired \cup {j}
  /\ sent' = NoSent /\ wrote' = << >>
  /\ evt' = NoEvt
  /\ UNCHANGED <<storeVars, pipeVars, engineVars, meterVars, sockVars, hand, frames,
                 tokRid, nextRoom, httpCalls, obsVars, histVars>>

\* The room's meta, members and count keys get their TTL together (every
\* command that refreshes one refreshes all three) and so expire together.
\* While the router tracks the room its rotation timer touches the keys
\* every QR_ROTATION_MS (60 s), well inside ROOM_KEY_TTL_MS (600 s).
ExpireRoom(rid) ==
  /\ rid \in meta
  /\ rid \notin localDom
  /\ meta' = meta \ {rid}
  /\ members' = [members EXCEPT ![rid] = {}]
  /\ count' = [count EXCEPT ![rid] = NoKey]
  /\ sent' = NoSent /\ wrote' = << >>
  /\ evt' = NoEvt
  /\ UNCHANGED <<jtis, jtiKeys, pipeVars, engineVars, meterVars, sockVars, hand, frames,
                 tokVars, nextRoom, httpCalls, obsVars, histVars>>

\* The jtis set gets its TTL with the room's keys or later (markTokenJtiUsed
\* refreshes it alone), so it expires after them.
ExpireJtis(rid) ==
  /\ rid \notin meta
  /\ jtis[rid] # {}
  /\ jtis' = [jtis EXCEPT ![rid] = {}]
  /\ sent' = NoSent /\ wrote' = << >>
  /\ evt' = NoEvt
  /\ UNCHANGED <<meta, members, count, jtiKeys, pipeVars, engineVars, meterVars,
                 sockVars, hand, frames, tokVars, nextRoom, httpCalls, obsVars, histVars>>

\* A jti marker's TTL is exp - now + graceMs: it cannot expire before the
\* token has, nor (graceMs = 5 s) while a SET NX for it is still in the pipeline.
ExpireMarker(rid, j) ==
  /\ <<rid, j>> \in jtiKeys
  /\ j \in tokExpired
  /\ \A i \in 1..Len(redisQ) : ~(redisQ[i].op = "setnx" /\ redisQ[i].jti = j)
  /\ jtiKeys' = jtiKeys \ {<<rid, j>>}
  /\ marked' = marked \ {<<rid, j>>}
  /\ wiped' = wiped \ {<<rid, j>>}
  /\ refused' = refused \ {<<rid, j>>}
  /\ sent' = NoSent /\ wrote' = << >>
  /\ evt' = NoEvt
  /\ UNCHANGED <<meta, members, count, jtis, pipeVars, engineVars, meterVars, sockVars,
                 hand, frames, tokVars, nextRoom, httpCalls, obsVars, fullFor, lastStats>>

\* ---- TokenBucket and the rate check of the message handler -------------------
Min(a, b) == IF a < b THEN a ELSE b

\* new TokenBucket({capacity, ...}) at time t
TokenBucket(capacity, t) == [tokens |-> capacity, lastRefillMs |-> t]

\* (mutant) a refill that goes past the capacity
refillUncapped(b, capacity, refillTokens, refillEveryMs, t) ==
  LET elapsed == t - b.lastRefillMs
      periods == elapsed \div refillEveryMs
  IN [tokens |-> b.tokens + periods * refillTokens,
      lastRefillMs |-> b.lastRefillMs + periods * refillEveryMs]

\* TokenBucket.refill at time t
refill(b, capacity, refillTokens, refillEveryMs, t) ==
  LET elapsed == t - b.lastRefillMs
      periods == elapsed \div refillEveryMs
  IN IF elapsed <= 0 \/ periods <= 0 THEN b
     ELSE [tokens |-> Min(capacity, b.tokens + periods * refillTokens),
           lastRefillMs |-> b.lastRefillMs + periods * refillEveryMs]

\* (mutant) a bucket that never runs dry
takeAlways(b, n) == TRUE

\* TokenBucket.take(n) on a refilled bucket: its result and the bucket after it
takeOk(b, n) == n <= 0 \/ b.tokens >= n
take(b, n) == IF takeOk(b, n) /\ n > 0 THEN [b EXCEPT !.tokens = @ - n] ELSE b

\* the two buckets of a connection as take() finds them at the current time
msgRefilled(c) ==
  refill(msgBucket[c], MAX_MSGS_PER_10S, MAX_MSGS_PER_10S, REFILL_EVERY_MS, now)
bytesRefilled(c) ==
  refill(bytesBucket[c], MAX_BYTES_PER_10S, MAX_BYTES_PER_10S, REFILL_EVERY_MS, now)

\* the ctx of the connection admitted by this step gets two full buckets
NewBuckets ==
  LET fresh(c) == sock[c] = "new" /\ sock'[c] = "open" IN
  /\ msgBucket' = [c \in Conns |-> IF fresh(c) THEN TokenBucket(MAX_MSGS_PER_10S, now)
                                    ELSE msgBucket[c]]
  /\ bytesBucket' = [c \in Conns |-> IF fresh(c) THEN TokenBucket(MAX_BYTES_PER_10S, now)
                                      ELSE bytesBucket[c]]
  /\ UNCHANGED <<now, charged, burst, rx>>

\* what the buckets took at the current tick
Charged(c, m, b) ==
  [charged EXCEPT ![c][0] = [msgs |-> @.msgs + m, bytes |-> @.bytes + b]]
Burst(c) ==
  [burst EXCEPT ![c] = IF msgRefilled(c).tokens = MAX_MSGS_PER_10S
                         THEN [start |-> now, n |-> 1]
                         ELSE [@ EXCEPT !.n = @ + 1]]

\* a frame of `bytes` bytes passes the size check and both buckets take it
Charge(c, bytes) ==
  /\ bytes <= MAX_WS_MSG_BYTES
  /\ takeOk(msgRefilled(c), 1)
  /\ takeOk(bytesRefilled(c), bytes)
  /\ msgBucket' = [msgBucket EXCEPT ![c] = take(msgRefilled(c), 1)]
  /\ bytesBucket' = [bytesBucket EXCEPT ![c] = take(bytesRefilled(c), bytes)]
  /\ charged' = Charged(c, 1, bytes)
  /\ burst' = Burst(c)
  /\ rx' = [conn |-> c, bytes |-> bytes]
  /\ UNCHANGED now

\* a frame over MAX_WS_MSG_BYTES: closed before the buckets are asked
RecvOversize(c, bytes) ==
  /\ CanRecv(c)
  /\ bytes > MAX_WS_MSG_BYTES
  /\ frames' = [frames EXCEPT ![c] = @ + 1]
  /\ CommitSend(wsClose(St0, c, "1008 message too large"))
  /\ evt' = Evt("oversize", c, None, None)
  /\ rx' = [conn |-> c, bytes |-> bytes]
  /\ UNCHANGED <<storeVars, pipeVars, engineVars, meterVars, connIp, disconnected,
                 evError, hand, tokVars, nextRoom, httpCalls, obsVars, histVars,
                 now, msgBucket, bytesBucket, charged, burst>>

\* a frame one of the buckets refuses: `!msgBucket.take(1) || !bytesBucket.take(bytes)`
\* asks the bytes bucket only when the messages bucket took the frame
RecvOverLimit(c, bytes) ==
  /\ CanRecv(c)
  /\ bytes <= MAX_WS_MSG_BYTES
  /\ LET mOk == takeOk(msgRefilled(c), 1) IN
     /\ ~(mOk /\ takeOk(bytesRefilled(c), bytes))
     /\ msgBucket' = [msgBucket EXCEPT ![c] = take(msgRefilled(c), 1)]
     /\ bytesBucket' = [bytesBucket EXCEPT ![c] = IF mOk THEN bytesRefilled(c) ELSE @]
     /\ charged' = (IF mOk THEN Charged(c, 1, 0) ELSE charged)
     /\ burst' = (IF mOk THEN Burst(c) ELSE burst)
  /\ frames' = [frames EXCEPT ![c] = @ + 1]
  /\ CommitSend(wsClose(St0, c, "1008 rate limit exceeded"))
  /\ evt' = Evt("rate_limit", c, None, None)
  /\ rx' = [conn |-> c, bytes |-> bytes]
  /\ UNCHANGED <<storeVars, pipeVars, engineVars, meterVars, connIp, disconnected,
                 evError, hand, tokVars, nextRoom, httpCalls, obsVars, histVars, now>>

\* the clock advances
Tick(limit) ==
  /\ now < limit
  /\ now' = now + 1
  /\ charged' = [c \in Conns |->
                   [a \in Ages |-> IF a = 0 THEN NoCharge ELSE charged[c][a - 1]]]
  /\ sent' = NoSent /\ wrote' = << >>
  /\ evt' = NoEvt
  /\ UNCHANGED <<storeVars, pipeVars, engineVars, meterVars, sockVars, hand, frames,
                 tokVars, nextRoom, httpCalls, obsVars, histVars,
                 msgBucket, bytesBucket, burst, rx>>

\* everything but the clock and the bucket on its own
tbRest == <<storeVars, pipeVars, engineVars, meterVars, sockVars, hand, frames,
            tokVars, nextRoom, httpCalls, sent, wrote, evt, obsVars, histVars,
            msgBucket, bytesBucket, charged, burst, rx, pingCfg, pingVars,
            downVars, ttlVars, codecVars, legacyVars, rotVars, sdVars>>

\* bucket.take(n) at the current time
TbTake(n) ==
  /\ tbRet.seq < MaxTakes
  /\ LET b == refill(tb, tbCfg.capacity, tbCfg.refillTokens, tbCfg.refillEveryMs, now)
     IN /\ tb' = take(b, n)
        /\ tbRet' = [seq |-> tbRet.seq + 1, n |-> n, ok |-> takeOk(b, n), found |-> tb,
                     at |-> now]
  /\ UNCHANGED <<tbRest, now, tbCfg>>

\* the clock advances while the bucket is left alone
TbTick ==
  /\ now < MaxTakeTime
  /\ now' = now + 1
  /\ UNCHANGED <<tbRest, tbVars>>

\* ---- keep-alive -----------------------------------------------------------------
\* the ctx of the connection admitted by this step: lastPongMs, awaitingPong
NewLiveness ==
  LET fresh(c) == sock[c] = "new" /\ sock'[c] = "open" IN
  /\ lastPongMs' = [c \in Conns |-> IF fresh(c) THEN now ELSE lastPongMs[c]]
  /\ awaitingPong' = [c \in Conns |-> IF fresh(c) THEN FALSE ELSE awaitingPong[c]]
  /\ UNCHANGED <<pingCfg, sweptAt, pingAt>>

\* socket.on("pong")
Pong(c) ==
  /\ sock[c] = "open"
  /\ lastPongMs' = [lastPongMs EXCEPT ![c] = now]
  /\ awaitingPong' = [awaitingPong EXCEPT ![c] = FALSE]
  /\ pingAt' = [pingAt EXCEPT ![c] = NoPing]
  /\ sent' = NoSent /\ wrote' = << >>
  /\ evt' = Evt("pong", c, None, None)
  /\ UNCHANGED <<storeVars, pipeVars, engineVars, meterVars, sockVars, hand, frames,
                 tokVars, nextRoom, httpCalls, obsVars, histVars, bucketVars,
                 pingCfg, sweptAt>>

\* (mutant) a sweep that finds nobody dead
DeadNever(c) == FALSE

\* (mutant) a sweep that goes by the age of the last pong alone
DeadByAge(c) == now - lastPongMs[c] > pingCfg.timeout

\* `ctx.awaitingPong && now - ctx.lastPongMs > PING_TIMEOUT`
Dead(c) == awaitingPong[c] /\ now - lastPongMs[c] > pingCfg.timeout

\* the setInterval callback is due
SweepDue == now > sweptAt /\ now % pingCfg.interval = 0

RECURSIVE sweepLog(_)
sweepLog(ids) ==
  IF ids = {} THEN << >>
  ELSE LET c == CHOOSE x \in ids : \A y \in ids : x <= y
       IN <<Wrote(c, IF Dead(c) THEN "terminate" ELSE "ping")>> \o sweepLog(ids \ {c})

\* the pingTimer callback: terminate the dead, ping the others
Sweep ==
  /\ SweepDue
  /\ LET open == {c \in connections : sock[c] = "open"}
         dead == {c \in open : Dead(c)}
     IN /\ sock' = [c \in Conns |-> IF c \in dead THEN "closed" ELSE sock[c]]
        /\ evClose' = [c \in Conns |-> c \in dead \/ evClose[c]]
        /\ awaitingPong' = [c \in Conns |-> c \in open \ dead \/ awaitingPong[c]]
        /\ pingAt' = [c \in Conns |-> IF c \in open \ dead /\ pingAt[c] = NoPing
                                       THEN now ELSE pingAt[c]]
        /\ wrote' = (IF trace THEN sweepLog(open) ELSE << >>)
  /\ sweptAt' = now
  /\ sent' = NoSent
  /\ evt' = Evt("sweep", None, None, None)
  /\ UNCHANGED <<storeVars, pipeVars, engineVars, meterVars, connIp, disconnected,
                 evError, hand, frames, tokVars, nextRoom, httpCalls, obsVars,
                 histVars, bucketVars, pingCfg, lastPongMs>>

\* ---- the TTLs of the room keys ------------------------------------------------------
\* whether the key exists
KeyExists(st, rid, k) ==
  CASE k = "meta" -> rid \in st.meta
    [] k = "members" -> st.members[rid] # {}
    [] k = "count" -> st.count[rid] # NoKey
    [] k = "jtis" -> st.jtis[rid] # {}

\* the keys the command PEXPIREs, given the keys it found
Pexpired(st, cmd) ==
  CASE cmd.op = "createRoom" -> KeyNames
    [] cmd.op = "createRoomEmpty" -> {"meta", "count"}
    [] cmd.op = "tryJoin" ->
         IF tryJoinReply(st, cmd.rid, cmd.conn).ok THEN {"meta", "members", "count"} ELSE {}
    [] cmd.op = "leave" -> IF cmd.rid \in st.meta THEN KeyNames ELSE {}
    [] cmd.op = "touch" -> KeyNames
    [] cmd.op = "addjti" -> {"jtis"}
    [] OTHER -> {}

\* the expiry times of the room's keys after the command ran at time t:
\* PEXPIRE of a key that does not exist sets nothing
PexpireAfter(ex, st, cmd, t) ==
  [k \in KeyNames |->
     IF ~KeyExists(ApplyCmd(st, cmd), cmd.rid, k) THEN NoKey
     ELSE IF k \in Pexpired(st, cmd) THEN t + ROOM_KEY_TTL_MS
     ELSE ex[k]]

\* a RoomStore method called on its own, and Redis running its script or MULTI
StoreCall(op, rid, conn) ==
  LET cmd == Cmd(op, rid, conn, None, None, None)
      st == ApplyCmd(Store, cmd)
      r == ReplyTo(Store, cmd)
  IN /\ storeCalls < MaxStoreCalls
     /\ storeCalls' = storeCalls + 1
     /\ meta' = st.meta
     /\ members' = st.members
     /\ count' = st.count
     /\ jtis' = st.jtis
     /\ jtiKeys' = st.jtiKeys
     /\ pexpireAt' = [pexpireAt EXCEPT ![rid] = PexpireAfter(@, Store, cmd, now)]
     /\ ret' = [op |-> op, rid |-> rid, conn |-> conn, ok |-> r.ok, n |-> r.n,
                label |-> IF op = "tryJoin" THEN tryJoinReply(Store, rid, conn).label
                          ELSE None,
                code |-> r.code,
                was |-> rid \in meta /\ conn \in members[rid]]
     /\ sent' = NoSent /\ wrote' = << >>
     /\ evt' = NoEvt
     /\ UNCHANGED <<pipeVars, engineVars, meterVars, sockVars, hand, frames, tokVars,
                    nextRoom, httpCalls, obsVars, histVars, bucketVars, pingCfg,
                    pingVars, downVars, codecVars, legacyVars, tbVars, rotVars, sdVars>>

\* the clock advances; Redis drops the keys whose time has come
TickExpire ==
  LET gone(r, k) == pexpireAt[r][k] # NoKey /\ pexpireAt[r][k] <= now + 1 IN
  /\ now < MaxTime
  /\ now' = now + 1
  /\ meta' = {r \in meta : ~gone(r, "meta")}
  /\ members' = [r \in Rooms |-> IF gone(r, "members") THEN {} ELSE members[r]]
  /\ count' = [r \in Rooms |-> IF gone(r, "count") THEN NoKey ELSE count[r]]
  /\ jtis' = [r \in Rooms |-> IF gone(r, "jtis") THEN {} ELSE jtis[r]]
  /\ pexpireAt' = [r \in Rooms |-> [k \in KeyNames |->
                     IF gone(r, k) THEN NoKey ELSE pexpireAt[r][k]]]
  /\ sent' = NoSent /\ wrote' = << >>
  /\ evt' = NoEvt
  /\ UNCHANGED <<jtiKeys, pipeVars, engineVars, meterVars, sockVars, hand, frames,
                 tokVars, nextRoom, httpCalls, obsVars, histVars, msgBucket,
                 bytesBucket, charged, burst, rx, pingCfg, pingVars, downVars, ret,
                 storeCalls, codecVars, legacyVars, tbVars, rotVars, sdVars>>

\* ---- the router's rotation timers ------------------------------------------------
\* ensureLocalRoom and cleanupIfEmpty as this step ran them: a new entry gets
\* a token expiring QR_ROTATION_MS from now and an interval timer of that
\* period; an evicted entry's timer is cleared
RouterTimers ==
  LET made == localDom' \ localDom
      gone == localDom \ localDom'
  IN /\ qrTimer' = [r \in Rooms |-> IF r \in made THEN now + qrCfg
                                    ELSE IF r \in gone THEN NoKey ELSE qrTimer[r]]
     /\ qrToken' = [r \in Rooms |-> IF r \in made THEN QrTok(qrMinted + 1, now + qrCfg)
                                    ELSE IF r \in gone THEN NoQr ELSE qrToken[r]]
     /\ qrMinted' = qrMinted + Cardinality(made)
     /\ UNCHANGED qrCfg

\* Redis runs the oldest pipelined command at the current time: the TTLs it sets
HeadTtl ==
  pexpireAt' = [pexpireAt EXCEPT ![Head(redisQ).rid] =
                  PexpireAfter(@, Store, Head(redisQ), now)]

\* roomStore.touch(rid) run at the current time
touchTtl(rid) ==
  [pexpireAt EXCEPT ![rid] =
     PexpireAfter(@, Store, Cmd("touch", rid, None, None, None, None), now)]

\* `if (ctx.roomId) void roomStore.touch(ctx.roomId)` of the frame this step receives
FrameTouch(c) ==
  /\ touches' = (IF ctxRoom[c] # None THEN [touches EXCEPT ![ctxRoom[c]] = @ + 1]
                 ELSE touches)
  /\ pexpireAt' = (IF ctxRoom[c] # None THEN touchTtl(ctxRoom[c]) ELSE pexpireAt)
  /\ UNCHANGED <<storeUp, unhandled, ret, storeCalls>>

\* what the engine's steps leave alone besides the timers and the TTLs
rotRest == <<bucketVars, pingCfg, pingVars, downVars, ret, storeCalls, codecVars,
             legacyVars, tbVars, sdVars>>

\* (mutant) a rotation that keeps the entry's token
rotatedTokenKept(rid) == qrToken[rid]

\* rotateQr: the token the entry gets
rotatedToken(rid) == QrTok(qrMinted + 1, now + qrCfg)

\* the setInterval callback of a router entry: rotateQr(roomId).  The touch
\* is not awaited; Redis runs it within the tick.
RotateQr(rid) ==
  /\ qrTimer[rid] # NoKey
  /\ qrTimer[rid] <= now
  /\ qrTimer' = [qrTimer EXCEPT ![rid] = @ + qrCfg]
  /\ IF rid \notin localDom
       THEN /\ CommitSend(St0)
            /\ evt' = NoEvt
            /\ UNCHANGED <<touches, pexpireAt, qrToken, qrMinted>>
       ELSE /\ touches' = [touches EXCEPT ![rid] = @ + 1]
            /\ pexpireAt' = touchTtl(rid)
            /\ qrToken' = [qrToken EXCEPT ![rid] = rotatedToken(rid)]
            /\ qrMinted' = qrMinted + 1
            /\ \E S \in SUBSET OpenSet :
                 CommitSend(broadcast(St0, S, localConns[rid],
                                      Frame("QR_ROTATED", rid, rotatedToken(rid).jti, FALSE)))
            /\ evt' = Evt("rotate", None, rid, None)
  /\ UNCHANGED <<storeVars, pipeVars, engineVars, meterVars, connIp, disconnected,
                 evError, hand, frames, tokVars, nextRoom, httpCalls, obsVars, histVars,
                 bucketVars, pingCfg, pingVars, storeUp, unhandled, ret, storeCalls,
                 codecVars, legacyVars, tbVars, qrCfg, sdVars>>

\* no timer is due: the clock may move on
NoTimerDue == \A r \in Rooms : qrTimer[r] # NoKey => qrTimer[r] > now

\* ---- the process and its shutdown handler ----------------------------------------
GRACEFUL_SHUTDOWN_TIMEOUT_MS == 2
MaxShutdownTime == 4
MaxSignals == 2

Alive == exitCode = "none"
procRest == <<storeVars, pipeVars, engineVars, meterVars, sockVars, hand, frames,
              tokVars, nextRoom, httpCalls, obsVars, histVars, pingCfg, pingVars,
              downVars, ttlVars, codecVars, legacyVars, tbVars, rotVars>>
\* process.exit(code), or the process killed: its timers and promises are gone
Exit(code) ==
  /\ exitCode' = code
  /\ shutdownTimeout' = {}
  /\ awaitingClose' = 0

\* (mutant) a handler that sets no timer
setShutdownTimeoutNone(ts) == ts
\* `setTimeout(() => process.exit(1), config.GRACEFUL_SHUTDOWN_TIMEOUT_MS)`
setShutdownTimeout(ts) == ts \cup {now + GRACEFUL_SHUTDOWN_TIMEOUT_MS}

\* SIGTERM or SIGINT arrives. With FEATURE_GRACEFUL_SHUTDOWN the handler
\* gracefulShutdown runs up to `await fastify.close()`; without it no handler
\* is installed and the signal's default action ends the process.
Signal ==
  /\ Alive
  /\ signals < MaxSignals
  /\ now + GRACEFUL_SHUTDOWN_TIMEOUT_MS <= MaxShutdownTime
  /\ signals' = signals + 1
  /\ signalAt' = (IF signalAt = NoKey THEN now ELSE signalAt)
  /\ IF featureShutdown
       THEN /\ shutdownTimeout' = setShutdownTimeout(shutdownTimeout)
            /\ awaitingClose' = awaitingClose + 1
            /\ UNCHANGED exitCode
       ELSE Exit("signal")
  /\ sent' = NoSent /\ wrote' = << >>
  /\ evt' = Evt("signal", None, None, None)
  /\ UNCHANGED <<featureShutdown, bucketVars, procRest>>

\* fastify.close() settles for an invocation of gracefulShutdown:
\* clearTimeout and process.exit(0), or the catch block and process.exit(1)
CloseSettles(ok) ==
  /\ Alive
  /\ awaitingClose > 0
  /\ Exit(IF ok THEN "0" ELSE "1")
  /\ sent' = NoSent /\ wrote' = << >>
  /\ evt' = EvtC("exit", None, None, None, IF ok THEN "closed" ELSE "close_failed")
  /\ UNCHANGED <<featureShutdown, signalAt, signals, bucketVars, procRest>>

\* a shutdownTimeout timer fires: "Graceful shutdown timeout, forcing exit"
ForceExit ==
  /\ Alive
  /\ \E t \in shutdownTimeout : t <= now
  /\ Exit("1")
  /\ sent' = NoSent /\ wrote' = << >>
  /\ evt' = EvtC("exit", None, None, None, "forced")
  /\ UNCHANGED <<featureShutdown, signalAt, signals, bucketVars, procRest>>

\* time passes while the process runs and no shutdownTimeout timer is due
ShutdownClock ==
  /\ Alive
  /\ \A t \in shutdownTimeout : t > now
  /\ Tick(MaxShutdownTime)
  /\ UNCHANGED <<pingCfg, pingVars, sideVars>>

\* ---- Redis unreachable -----------------------------------------------------------
\* the ioredis 'close' event: the connection to Redis is lost
RedisClose ==
  /\ storeUp
  /\ storeUp' = FALSE
  /\ sent' = NoSent /\ wrote' = << >>
  /\ evt' = NoEvt
  /\ UNCHANGED <<storeVars, pipeVars, engineVars, meterVars, sockVars, hand, frames,
                 tokVars, nextRoom, httpCalls, obsVars, histVars, bucketVars,
                 pingCfg, pingVars, unhandled, touches, ttlVars, codecVars, legacyVars, tbVars, rotVars, sdVars>>

\* the ioredis 'ready' event: the retryStrategy reconnected in time
RedisReady ==
  /\ ~storeUp
  /\ storeUp' = TRUE
  /\ sent' = NoSent /\ wrote' = << >>
  /\ evt' = NoEvt
  /\ UNCHANGED <<storeVars, pipeVars, engineVars, meterVars, sockVars, hand, frames,
                 tokVars, nextRoom, httpCalls, obsVars, histVars, bucketVars,
                 pingCfg, pingVars, unhandled, touches, ttlVars, codecVars, legacyVars, tbVars, rotVars, sdVars>>

\* `if (ctx.roomId) void roomStore.touch(ctx.roomId)` of the frame this step
\* receives: with Redis unreachable the promise is rejected once the retries
\* are used up, unless Redis is back before, and nothing awaits it
Touch(c) ==
  /\ unhandled' \in (IF ctxRoom[c] # None /\ ~storeUp THEN {unhandled, TRUE}
                     ELSE {unhandled})
  /\ touches' = (IF ctxRoom[c] # None THEN [touches EXCEPT ![ctxRoom[c]] = @ + 1]
                 ELSE touches)
  /\ UNCHANGED <<storeUp, ttlVars, codecVars, legacyVars, tbVars, rotVars, sdVars>>

\* the message handler's `catch (err)`: socket.close(1011, "internal error")
catchClose(st, c) == wsClose(st, c, "1011 internal error")

\* Redis stayed unreachable for maxRetriesPerRequest reconnections: the oldest
\* pending command is rejected and the `await` on it throws.  A message
\* handler lands in its catch block; onDisconnect runs its `finally` and the
\* rejection leaves the 'close' listener with nothing to catch it.
RejectHead ==
  /\ ~storeUp
  /\ redisQ # << >>
  /\ LET cmd == Head(redisQ)
         c == cmd.h[1]
         s == cmd.h[2]
     IN /\ redisQ' = Tail(redisQ)
        /\ hand' = [hand EXCEPT ![c][s] = Idle]
        /\ IF s = DiscSlot
             THEN /\ FinallyDisconnect(c)
                  /\ CommitSend(St0)
                  /\ unhandled' = TRUE
             ELSE /\ CommitSend(catchClose(St0, c))
                  /\ UNCHANGED <<connections, meterVars, decs, unhandled>>
        /\ evt' = (IF trace
                     THEN [EvtC("store_error", c, cmd.rid, cmd.jti, cmd.op) EXCEPT
                             !.x = IF s = DiscSlot THEN "disconnect" ELSE "message"]
                   ELSE NoEvt)
  /\ UNCHANGED <<storeVars, ctxRoom, ctxLabel, localDom, localConns, connIp,
                 disconnected, evError, frames, tokVars, nextRoom, httpCalls,
                 leaves, accepts, trace, histVars, bucketVars, pingCfg, pingVars,
                 storeUp, touches, ttlVars, codecVars, legacyVars, tbVars, rotVars, sdVars>>

\* ---- join tokens: the codec ----------------------------------------------------
\* Strings are sequences of character codes and Buffers sequences of bytes.
\* Room ids and jtis, 22 characters in the program, are one letter here, which
\* leaves the payload's length at 2 modulo 3 as in the program; the digest,
\* 32 bytes there, is 2 bytes here: also 2 modulo 3.
RECURSIVE Pow2(_)
Pow2(n) == IF n = 0 THEN 1 ELSE 2 * Pow2(n - 1)
BitOf(c, b) == (c \div Pow2(b)) % 2
FlipBit(c, b) == IF BitOf(c, b) = 1 THEN c - Pow2(b) ELSE c + Pow2(b)

\* the character of a 6-bit value: A-Z a-z 0-9 - _
b64Char(v) ==
  IF v < 26 THEN 65 + v
  ELSE IF v < 52 THEN 97 + (v - 26)
  ELSE IF v < 62 THEN 48 + (v - 52)
  ELSE IF v = 62 THEN 45 ELSE 95

\* Buffer.from(s, "base64"), one character: the value of a character of
\* either alphabet (+ / and - _), -1 for any other
unbase64(c) ==
  IF c >= 65 /\ c <= 90 THEN c - 65
  ELSE IF c >= 97 /\ c <= 122 THEN c - 71
  ELSE IF c >= 48 /\ c <= 57 THEN c + 4
  ELSE IF c \in {43, 45} THEN 62
  ELSE IF c \in {47, 95} THEN 63
  ELSE -1

\* toString("base64") with + / replaced and the = padding removed
RECURSIVE b64urlEncode(_)
b64urlEncode(buf) ==
  IF buf = << >> THEN << >>
  ELSE IF Len(buf) = 1
    THEN <<b64Char(buf[1] \div 4), b64Char((buf[1] % 4) * 16)>>
  ELSE IF Len(buf) = 2
    THEN <<b64Char(buf[1] \div 4), b64Char((buf[1] % 4) * 16 + buf[2] \div 16),
           b64Char((buf[2] % 16) * 4)>>
  ELSE <<b64Char(buf[1] \div 4), b64Char((buf[1] % 4) * 16 + buf[2] \div 16),
         b64Char((buf[2] % 16) * 4 + buf[3] \div 64), b64Char(buf[3] % 64)>>
       \o b64urlEncode(SubSeq(buf, 4, Len(buf)))

\* Buffer.from(padded, "base64"): characters outside the alphabets are
\* skipped and decoding ends at the first "="
RECURSIVE legalSextets(_)
legalSextets(s) ==
  IF s = << >> \/ Head(s) = 61 THEN << >>
  ELSE IF unbase64(Head(s)) < 0 THEN legalSextets(Tail(s))
  ELSE <<unbase64(Head(s))>> \o legalSextets(Tail(s))

\* four characters make three bytes; of a last group of two or three
\* characters the bits beyond the last whole byte are dropped
RECURSIVE groupBytes(_)
groupBytes(x) ==
  IF Len(x) < 2 THEN << >>
  ELSE IF Len(x) = 2 THEN <<x[1] * 4 + x[2] \div 16>>
  ELSE IF Len(x) = 3
    THEN <<x[1] * 4 + x[2] \div 16, (x[2] % 16) * 16 + x[3] \div 4>>
  ELSE <<x[1] * 4 + x[2] \div 16, (x[2] % 16) * 16 + x[3] \div 4, (x[3] % 4) * 64 + x[4]>>
       \o groupBytes(SubSeq(x, 5, Len(x)))

b64urlDecode(s) == groupBytes(legalSextets(s))

\* createHmac("sha256", secret).update(data).digest(): a keyed checksum stands
\* for the digest (no two byte strings the model meets share one)
RECURSIVE checksum(_, _)
checksum(h, buf) ==
  IF buf = << >> THEN h ELSE checksum((h * 257 + Head(buf)) % 65521, Tail(buf))
hmacSha256(secret, data) ==
  LET h == checksum(secret + Len(data), data) IN <<h \div 256, h % 256>>
hmacSha256B64Url(secret, data) == b64urlEncode(hmacSha256(secret, data))

\* compares the decoded bytes, not the strings
timingSafeEqualB64Url(a, b) ==
  /\ Len(b64urlDecode(a)) = Len(b64urlDecode(b))
  /\ b64urlDecode(a) = b64urlDecode(b)

\* JSON.stringify({v: 1, rid, exp, jti}) as UTF-8
JsonHead == <<123, 34, 118, 34, 58, 49, 44, 34, 114, 105, 100, 34, 58, 34>>
JsonExp == <<34, 44, 34, 101, 120, 112, 34, 58>>
JsonJti == <<44, 34, 106, 116, 105, 34, 58, 34>>
JsonTail == <<34, 125>>
RECURSIVE Digits(_)
Digits(n) == IF n < 10 THEN <<48 + n>> ELSE Digits(n \div 10) \o <<48 + (n % 10)>>
IdChar(id) == 64 + id
stringify(p) ==
  JsonHead \o <<IdChar(p.rid)>> \o JsonExp \o Digits(p.exp)
           \o JsonJti \o <<IdChar(p.jti)>> \o JsonTail

\* JSON.parse and the field checks of verifyJoinToken
IsDigit(c) == c >= 48 /\ c <= 57
RECURSIVE DigitRun(_, _)
DigitRun(buf, i) ==
  IF i <= Len(buf) /\ IsDigit(buf[i]) THEN 1 + DigitRun(buf, i + 1) ELSE 0
RECURSIVE NumVal(_)
NumVal(ds) ==
  IF ds = << >> THEN 0 ELSE 10 * NumVal(SubSeq(ds, 1, Len(ds) - 1)) + (ds[Len(ds)] - 48)
Has(buf, i, part) ==
  /\ i + Len(part) - 1 <= Len(buf)
  /\ SubSeq(buf, i, i + Len(part) - 1) = part
parsePayload(buf) ==
  LET r == Len(JsonHead) + 1
      d == r + 1 + Len(JsonExp)
      k == DigitRun(buf, d)
      j == d + k + Len(JsonJti)
  IN IF /\ Has(buf, 1, JsonHead)
        /\ r <= Len(buf) /\ buf[r] \notin {34, 92} /\ buf[r] >= 32 /\ buf[r] < 128
        /\ Has(buf, r + 1, JsonExp)
        /\ k >= 1 /\ (k > 1 => buf[d] # 48)
        /\ Has(buf, d + k, JsonJti)
        /\ j <= Len(buf) /\ buf[j] \notin {34, 92} /\ buf[j] >= 32 /\ buf[j] < 128
        /\ Has(buf, j + 1, JsonTail)
        /\ Len(buf) = j + Len(JsonTail)
       THEN [ok |-> TRUE, rid |-> buf[r] - 64, exp |-> NumVal(SubSeq(buf, d, d + k - 1)),
             jti |-> buf[j] - 64]
       ELSE [ok |-> FALSE, rid |-> None, exp |-> 0, jti |-> None]

mintJoinTokenStr(secret, p) ==
  b64urlEncode(stringify(p)) \o <<46>> \o hmacSha256B64Url(secret, stringify(p))

Failed(code) == [ok |-> FALSE, code |-> code, payload |-> NoPayload]
verifyJoinToken(secret, token) ==
  LET dots == {i \in DOMAIN token : token[i] = 46} IN
  IF Cardinality(dots) # 1 THEN Failed("ERR_TOKEN_FORMAT")
  ELSE LET dot == CHOOSE i \in dots : TRUE
           payloadB64Url == SubSeq(token, 1, dot - 1)
           macB64Url == SubSeq(token, dot + 1, Len(token))
           payloadBytes == b64urlDecode(payloadB64Url)
           expectedMac == hmacSha256B64Url(secret, payloadBytes)
           payload == parsePayload(payloadBytes)
       IN IF payloadB64Url = << >> \/ macB64Url = << >> THEN Failed("ERR_TOKEN_FORMAT")
          ELSE IF ~timingSafeEqualB64Url(macB64Url, expectedMac) THEN Failed("ERR_TOKEN_MAC")
          ELSE IF ~payload.ok THEN Failed("ERR_TOKEN_FORMAT")
          ELSE [ok |-> TRUE, code |-> "OK",
                payload |-> [rid |-> payload.rid, exp |-> payload.exp, jti |-> payload.jti]]

\* everything but the token on its way
relayVars == <<storeVars, pipeVars, engineVars, meterVars, sockVars, hand, frames,
               tokVars, nextRoom, httpCalls, sent, wrote, evt, obsVars, histVars,
               bucketVars, pingCfg, pingVars, downVars, ttlVars>>

\* mintJoinToken(secret, rid, exp): the jti is random
MintToken(jti) ==
  /\ tokIn # NoTokIn
  /\ minted = NoPayload
  /\ minted' = [rid |-> tokIn.rid, exp |-> tokIn.exp, jti |-> jti]
  /\ tokStr' = mintJoinTokenStr(tokIn.secret, minted')
  /\ UNCHANGED <<relayVars, legacyVars, tbVars, rotVars, sdVars, tokIn, flipAt, verdict>>

\* one bit of one character of either half changes
FlipToken(i, b) ==
  /\ minted # NoPayload
  /\ flipAt = NoFlip
  /\ verdict = NoVerdict
  /\ i \in DOMAIN tokStr
  /\ tokStr[i] # 46
  /\ tokStr' = [tokStr EXCEPT ![i] = FlipBit(@, b)]
  /\ flipAt' = <<i, b>>
  /\ UNCHANGED <<relayVars, legacyVars, tbVars, rotVars, sdVars, tokIn, minted, verdict>>

\* verifyJoinToken(secret, token)
VerifyToken ==
  /\ minted # NoPayload
  /\ verdict = NoVerdict
  /\ verdict' = verifyJoinToken(tokIn.secret, tokStr)
  /\ UNCHANGED <<relayVars, legacyVars, tbVars, rotVars, sdVars, tokIn, minted, tokStr, flipAt>>

\* ---- the standalone server: server/rooms.ts and server/ws.ts ---------------------
\* The RoomStore runs without REDIS_URL (memoryStore); its async methods do their
\* work when called and the caller resumes after the await.  A token string is
\* the payload {v, rid, exp} and its MAC under the room's secret: two tokens of
\* one room with the same exp are the same string.  NoTok is a string no room's
\* secret signs.
wsRest == <<relayVars, codecVars, tbVars, rotVars, sdVars>>

\* RoomStore.join, memory branch: the store after it and what it returns
storeJoin(ms, rid, c) ==
  IF ~ms[rid].has THEN [ms |-> ms, ok |-> FALSE, code |-> "ERR_NO_ROOM"]
  ELSE IF Cardinality(ms[rid].participants) >= MAX_PARTICIPANTS
    THEN [ms |-> ms, ok |-> FALSE, code |-> "ERR_ROOM_FULL"]
  ELSE [ms |-> [ms EXCEPT ![rid].participants = @ \cup {c}], ok |-> TRUE, code |-> "OK"]

\* RoomStore.leave, memory branch
storeLeave(ms, rid, c) ==
  IF ~ms[rid].has THEN ms
  ELSE IF ms[rid].participants \ {c} = {} THEN [ms EXCEPT ![rid] = NoRoom]
  ELSE [ms EXCEPT ![rid].participants = @ \ {c}]

\* verifyJoinToken(roomId, token) after `await rooms.getRoomSecret(roomId)`
wsVerifyJoinToken(has, rid, tok, t) ==
  IF ~has THEN "ERR_NO_ROOM"
  ELSE IF tok.rid # rid THEN "ERR_TOKEN_MAC"
  ELSE IF t > tok.exp THEN "ERR_TOKEN_EXPIRED"
  ELSE "OK"

\* markTokenUsed(token, expUnixMs): the map after it and what it returns
markTokenUsed(used, tok, t) ==
  IF tok \in used /\ tok.exp > t THEN [used |-> used, fresh |-> FALSE]
  ELSE [used |-> used \cup {tok}, fresh |-> TRUE]

\* fastify.get("/ws"): a new connection
WsConnect ==
  /\ wsNextConn <= NumConns
  /\ conns' = conns \cup {wsNextConn}
  /\ wsNextConn' = wsNextConn + 1
  /\ wsEvt' = WsEvent("hello", wsNextConn, None, NoTok, "")
  /\ UNCHANGED <<wsRest, memoryStore, usedTokens, wsRoomId, wsHand, wsNow, wsTokens,
                 wsNextRoom, wsAccepted, wsLate>>

\* POST /rooms
WsHttpCreateRoom ==
  /\ wsNextRoom <= NumRooms
  /\ memoryStore' = [memoryStore EXCEPT ![wsNextRoom] = [has |-> TRUE, participants |-> {}]]
  /\ wsNextRoom' = wsNextRoom + 1
  /\ wsEvt' = WsEvent("room", None, wsNextRoom, NoTok, "")
  /\ UNCHANGED <<wsRest, usedTokens, conns, wsRoomId, wsHand, wsNow, wsTokens,
                 wsNextConn, wsAccepted, wsLate>>

\* GET /rooms/:roomId/token for a room that exists
WsHttpGetToken(rid) ==
  /\ memoryStore[rid].has
  /\ wsTokens' = wsTokens \cup {[rid |-> rid, exp |-> wsNow + TOKEN_TTL_MS]}
  /\ wsEvt' = WsEvent("token", None, rid, [rid |-> rid, exp |-> wsNow + TOKEN_TTL_MS], "")
  /\ UNCHANGED <<wsRest, memoryStore, usedTokens, conns, wsRoomId, wsHand, wsNow,
                 wsNextRoom, wsNextConn, wsAccepted, wsLate>>

\* JOIN_REQUEST with a roomId and a token, up to `await rooms.getRoomSecret`
WsRecvJoin(c, rid, tok) ==
  /\ c \in conns
  /\ wsHand[c].pc = "idle"
  /\ IF wsRoomId[c] # None
       THEN /\ wsEvt' = WsEvent("join_reply", c, rid, tok, "IGNORED")
            /\ UNCHANGED wsHand
       ELSE /\ wsHand' = [wsHand EXCEPT ![c] =
                            WsHandler("secret", rid, tok, memoryStore[rid].has, "")]
            /\ wsEvt' = WsEvent("join_request", c, rid, tok, "")
  /\ wsLate' = (IF tok \in wsAccepted /\ wsNow <= tok.exp
                 THEN wsLate \cup {c} ELSE wsLate \ {c})
  /\ UNCHANGED <<wsRest, memoryStore, usedTokens, conns, wsRoomId, wsNow, wsTokens,
                 wsNextRoom, wsNextConn, wsAccepted>>

\* verifyJoinToken, from the secret to its return
WsVerified(c) ==
  /\ wsHand[c].pc = "secret"
  /\ LET h == wsHand[c]
     IN wsHand' = [wsHand EXCEPT ![c] =
                     WsHandler("verdict", h.rid, h.tok, h.ok,
                               wsVerifyJoinToken(h.ok, h.rid, h.tok, wsNow))]
  /\ wsEvt' = WsEvent("verified", c, wsHand[c].rid, wsHand[c].tok, wsHand'[c].code)
  /\ UNCHANGED <<wsRest, memoryStore, usedTokens, conns, wsRoomId, wsNow, wsTokens,
                 wsNextRoom, wsNextConn, wsAccepted, wsLate>>

\* JOIN_REQUEST after `await verifyJoinToken`, up to `await rooms.join`: the
\* result of markTokenUsed is logged and not acted on
WsAfterVerify(c) ==
  /\ wsHand[c].pc = "verdict"
  /\ LET h == wsHand[c]
         j == storeJoin(memoryStore, h.rid, c)
     IN IF h.code # "OK"
          THEN /\ wsHand' = [wsHand EXCEPT ![c] = WsIdle]
               /\ wsEvt' = WsEvent("join_reply", c, h.rid, h.tok, h.code)
               /\ UNCHANGED <<memoryStore, usedTokens>>
          ELSE /\ usedTokens' = markTokenUsed(usedTokens, h.tok, wsNow).used
               /\ memoryStore' = j.ms
               /\ wsHand' = [wsHand EXCEPT ![c] = WsHandler("join", h.rid, h.tok, j.ok, j.code)]
               /\ wsEvt' = WsEvent("marked", c, h.rid, h.tok,
                                   IF markTokenUsed(usedTokens, h.tok, wsNow).fresh
                                     THEN "FRESH" ELSE "REPLAY")
  /\ UNCHANGED <<wsRest, conns, wsRoomId, wsNow, wsTokens, wsNextRoom, wsNextConn, wsAccepted, wsLate>>

\* JOIN_REQUEST after `await rooms.join`, up to mintJoinToken's
\* `await rooms.getRoomSecret`
WsAfterJoin(c) ==
  /\ wsHand[c].pc = "join"
  /\ LET h == wsHand[c]
     IN IF ~h.ok
          THEN /\ wsHand' = [wsHand EXCEPT ![c] = WsIdle]
               /\ wsEvt' = WsEvent("join_reply", c, h.rid, h.tok, h.code)
               /\ UNCHANGED <<wsRoomId, wsAccepted>>
          ELSE /\ wsRoomId' = [wsRoomId EXCEPT ![c] = h.rid]
               /\ wsAccepted' = wsAccepted \cup {h.tok}
               /\ wsHand' = [wsHand EXCEPT ![c] =
                               WsHandler("mint", h.rid, h.tok, memoryStore[h.rid].has, "")]
               /\ wsEvt' = WsEvent("joined", c, h.rid, h.tok, "")
  /\ UNCHANGED <<wsRest, memoryStore, usedTokens, conns, wsNow, wsTokens, wsNextRoom,
                 wsNextConn, wsLate>>

\* mintJoinToken after the secret, then JOINED with nextToken and ROOM_STATS;
\* without a secret it throws and the handler's catch logs
WsAfterMint(c) ==
  /\ wsHand[c].pc = "mint"
  /\ LET h == wsHand[c]
         next == [rid |-> h.rid, exp |-> wsNow + TOKEN_TTL_MS]
     IN /\ wsTokens' = (IF h.ok THEN wsTokens \cup {next} ELSE wsTokens)
        /\ wsEvt' = WsEvent("join_reply", c, h.rid, h.tok, IF h.ok THEN "JOINED" ELSE "THROWN")
  /\ wsHand' = [wsHand EXCEPT ![c] = WsIdle]
  /\ UNCHANGED <<wsRest, memoryStore, usedTokens, conns, wsRoomId, wsNow,
                 wsNextRoom, wsNextConn, wsAccepted, wsLate>>

\* LEAVE, up to `await rooms.leave`
WsRecvLeave(c, rid) ==
  /\ c \in conns
  /\ wsHand[c].pc = "idle"
  /\ IF wsRoomId[c] = rid
       THEN /\ memoryStore' = storeLeave(memoryStore, rid, c)
            /\ wsHand' = [wsHand EXCEPT ![c] = WsHandler("leave", rid, NoTok, TRUE, "")]
            /\ wsEvt' = WsEvent("leave_request", c, rid, NoTok, "")
       ELSE /\ wsEvt' = WsEvent("leave_reply", c, rid, NoTok, "IGNORED")
            /\ UNCHANGED <<memoryStore, wsHand>>
  /\ UNCHANGED <<wsRest, usedTokens, conns, wsRoomId, wsNow, wsTokens, wsNextRoom, wsNextConn, wsAccepted, wsLate>>

\* LEAVE after `await rooms.leave`: LEFT and ROOM_STATS
WsAfterLeave(c) ==
  /\ wsHand[c].pc = "leave"
  /\ wsRoomId' = [wsRoomId EXCEPT ![c] = None]
  /\ wsHand' = [wsHand EXCEPT ![c] = WsIdle]
  /\ wsEvt' = WsEvent("leave_reply", c, wsHand[c].rid, NoTok, "LEFT")
  /\ UNCHANGED <<wsRest, memoryStore, usedTokens, conns, wsNow, wsTokens, wsNextRoom, wsNextConn, wsAccepted, wsLate>>

\* ws.on("close") / ws.on("error"): disconnect(), up to `await rooms.leave`
WsDisconnect(c) ==
  /\ c \in conns
  /\ conns' = conns \ {c}
  /\ memoryStore' = (IF wsRoomId[c] # None THEN storeLeave(memoryStore, wsRoomId[c], c)
                      ELSE memoryStore)
  /\ wsEvt' = WsEvent("disconnect", c, wsRoomId[c], NoTok, "")
  /\ UNCHANGED <<wsRest, usedTokens, wsRoomId, wsHand, wsNow, wsTokens, wsNextRoom, wsNextConn, wsAccepted, wsLate>>

\* the standalone server's clock advances
WsTick ==
  /\ wsNow < MaxWsTime
  /\ wsNow' = wsNow + 1
  /\ wsEvt' = NoWsEvt
  /\ UNCHANGED <<wsRest, memoryStore, usedTokens, conns, wsRoomId, wsHand, wsTokens,
                 wsNextRoom, wsNextConn, wsAccepted, wsLate>>

\* ---- the clients of a specification -----------------------------------------
\* at most MaxAdmitted sockets are opened against the server
FewAdmitted == Cardinality({c \in Conns : sock[c] # "new"}) < MaxAdmitted
\* each client sends at most MaxFrames frames
MayRecv(c) == frames[c] < MaxFrames
\* or, where the rate check is modelled, at most MaxMetered
MayRecvMetered(c) == frames[c] < MaxMetered
\* each new socket comes from the first ip that is below its limit
FirstIp(ip) ==
  /\ ipCounts[ip] < MAX_CONNS_PER_IP
  /\ \A i \in Ips : i < ip => ipCounts[i] >= MAX_CONNS_PER_IP
\* each new socket comes from the first ip that has no open socket
NextIp(ip) == ipCounts[ip] = 0 /\ \A i \in Ips : i < ip => ipCounts[i] > 0

C2_MarkJtiAtomic ==
  [][\A c \in Conns, s \in Slots :
       (/\ hand[c][s].pc = "markAdd"
        /\ \E r \in Rooms :
             /\ r = hand[c][s].rid
             /\ \/ (r \in meta) # (r \in meta')
                \/ members[r] # members'[r]
                \/ count[r] # count'[r]
                \/ jtis[r] # jtis'[r]
                \/ {k \in jtiKeys : k[1] = r} # {k \in jtiKeys' : k[1] = r})
       => (Head(redisQ).op = "addjti" /\ Head(redisQ).h = <<c, s>>)]_vars

\* C3 (as stated): when markTokenJtiUsed(rid, jti) has returned true, a later
\* call's set-if-absent does not succeed while the marker's TTL has not expired.
C3_MarkedUntilTtl ==
  [][\A c \in Conns, s \in Slots :
       (hand[c][s].pc = "markSet" /\ hand'[c][s].pc = "markAdd")
         => <<hand[c][s].rid, hand[c][s].jti>> \notin marked]_vars

\* C3 (amended): ... while the marker's TTL has not expired and no leave has
\* deleted the room since that call returned.
C3_MarkedUntilTtlOrRoomDeleted ==
  [][\A c \in Conns, s \in Slots :
       (hand[c][s].pc = "markSet" /\ hand'[c][s].pc = "markAdd")
         => <<hand[c][s].rid, hand[c][s].jti>> \notin (marked \ wiped)]_vars

\* a later markTokenJtiUsed of a consumed pair has returned false, after a
\* leave and with the room still there
C3_Witness ==
  \E p \in refused :
    /\ p \in marked \ wiped
    /\ p[1] \in meta
    /\ \E c \in Conns : hand[c][1].pc = "idle" /\ frames[c] = MaxFrames

\* C4 (as stated): a token is accepted at most once, and once it has been
\* accepted every other JOIN_REQUEST presenting it is answered ERROR TOKEN_REPLAY.
C4_ReplayAlwaysTokenReplay ==
  /\ \A j \in Jtis : accepts[j] <= 1
  /\ (/\ evt.kind = "join_reply"
      /\ evt.jti # None
      /\ evt.code # "JOINED"
      /\ accepts[evt.jti] >= 1)
     => evt.code = "ERR_TOKEN_REPLAY"

\* C4 (amended): a token is accepted at most once; once it has been accepted, a
\* JOIN_REQUEST presenting it joins nobody and leaves the count as it is, and is
\* answered ERROR TOKEN_REPLAY retryable=true unless the requester is already
\* in a room (ALREADY_IN_ROOM), names another room (TOKEN_ROOM_MISMATCH), the
\* token has expired (TOKEN_EXPIRED) or the room is gone (NO_ROOM).
C4_AcceptedAtMostOnce ==
  [][/\ \A j \in Jtis : accepts'[j] <= 1
     /\ (/\ evt'.kind = "join_reply"
         /\ evt'.jti # None
         /\ evt'.code # "JOINED"
         /\ accepts[evt'.jti] >= 1)
        => /\ UNCHANGED <<members, count, localConns, ctxRoom, accepts>>
           /\ \/ evt'.code = "ERR_TOKEN_REPLAY"
              \/ evt'.code = "ERR_ALREADY_IN_ROOM" /\ ctxRoom[evt'.conn] # None
              \/ evt'.code = "ERR_TOKEN_ROOM_MISMATCH" /\ tokRid[evt'.jti] # evt'.rid
              \/ evt'.code = "ERR_TOKEN_EXPIRED" /\ evt'.jti \in tokExpired
              \/ evt'.code = "ERR_NO_ROOM" /\ evt'.rid \notin meta
           /\ \A i \in DOMAIN sent'[evt'.conn] :
                sent'[evt'.conn][i] =
                  ErrorFrame(evt'.code,
                             evt'.code \in {"ERR_TOKEN_REPLAY", "ERR_TOKEN_EXPIRED"})]_vars

\* a second JOIN_REQUEST presenting an accepted token, sent before the first
\* was answered, got the TOKEN_REPLAY error frame
C4_Witness ==
  /\ evt.kind = "join_reply"
  /\ evt.code = "ERR_TOKEN_REPLAY"
  /\ evt.jti # None
  /\ accepts[evt.jti] = 1
  /\ sent[evt.conn] = <<ErrorFrame("ERR_TOKEN_REPLAY", TRUE)>>
  /\ count[evt.rid] = ROOM_MAX_PARTICIPANTS

\* C5 (as stated): an accepted APP_MSG is written unchanged, exactly once, to
\* every other member of the room whose socket takes it, and to nobody else:
\* not to the sender.
C5_RelayedToOthersOnly ==
  [][(evt'.kind = "app_msg" /\ evt'.code = "OK") =>
       \A d \in Conns :
         sent'[d] = IF /\ d # evt'.conn
                       /\ evt'.rid \in localDom
                       /\ d \in localConns[evt'.rid]
                       /\ d \in connections
                       /\ sock[d] = "open"
                       /\ sock'[d] = "open"
                      THEN <<Frame("APP_MSG", evt'.rid, evt'.x, FALSE)>>
                      ELSE << >>]_vars

\* C5 (amended): an accepted APP_MSG is written unchanged, exactly once, to
\* every connection of the router's member set of the room, the sender
\* included, whose socket is open and is not closed as a slow consumer by this
\* broadcast, and to nobody else.
C5_RelayedToAllMembers ==
  [][(evt'.kind = "app_msg" /\ evt'.code = "OK") =>
       \A d \in Conns :
         sent'[d] = IF /\ evt'.rid \in localDom
                       /\ d \in localConns[evt'.rid]
                       /\ d \in connections
                       /\ sock[d] = "open"
                       /\ sock'[d] = "open"
                      THEN <<Frame("APP_MSG", evt'.rid, evt'.x, FALSE)>>
                      ELSE << >>]_vars

\* an APP_MSG was relayed in a room of two: both got it once
C5_Witness ==
  /\ evt.kind = "app_msg"
  /\ evt.code = "OK"
  /\ \E d \in Conns :
       /\ d # evt.conn
       /\ sent[d] = <<Frame("APP_MSG", evt.rid, evt.x, FALSE)>>
       /\ sent[evt.conn] = sent[d]

\* C6: in every reachable state the admitted, not yet disconnected connections
\* of each ip are at most MAX_CONNS_PER_IP and all of them together at most
\* MAX_TOTAL_CONNECTIONS: the meters never read less than the connections
\* they count, and never more than their limits.
C6_ConnectionLimits ==
  /\ \A ip \in Ips :
       /\ Cardinality({c \in connections : connIp[c] = ip}) <= ipCounts[ip]
       /\ ipCounts[ip] <= MAX_CONNS_PER_IP
  /\ Cardinality(connections) <= globalCount
  /\ globalCount <= MAX_TOTAL_CONNECTIONS

\* after a disconnect, a connection attempt from the ip of the connection
\* that is still open was turned away
C6_Witness ==
  /\ evt.kind = "reject_ip"
  /\ \E c \in Conns : decs[c] = 1
  /\ \E c \in connections : ipCounts[connIp[c]] = MAX_CONNS_PER_IP

\* C7: for every disconnect (close, error, or both in either order) the meters
\* are decremented exactly once and the room membership is removed exactly
\* once: onDisconnect runs at most once, and when it and the connection's
\* frame handlers are done the connection is counted by no meter and is a
\* member of no room.
C7_DisconnectExactlyOnce ==
  \A c \in Conns :
    /\ decs[c] <= 1
    /\ leaves[c] <= 1
    /\ (/\ decs[c] = 1
        /\ \A s \in Slots : hand[c][s].pc = "idle")
       => /\ c \notin connections
          /\ ipCounts[connIp[c]] = Cardinality({d \in connections : connIp[d] = connIp[c]})
          /\ \A r \in Rooms : c \notin members[r]

\* C8: once a connection's disconnect handling and all of its in-flight frame
\* handlers have finished, its id is in no room's member set in the store and
\* in no router entry.
C8_CloseRemovesMembership ==
  \A c \in Conns :
    (/\ disconnected[c]
     /\ \A s \in {DiscSlot} \cup Slots : hand[c][s].pc = "idle"
     /\ c \notin connections)
    => \A r \in Rooms : c \notin members[r] /\ c \notin localConns[r]

\* C9: a connection id is a member of at most one room, in the store and in
\* the router.
C9_AtMostOneRoom ==
  \A c \in Conns :
    /\ Cardinality({r \in Rooms : c \in members[r]}) <= 1
    /\ Cardinality({r \in localDom : c \in localConns[r]}) <= 1

\* C10: on one connection the handler of a frame does not start while the
\* handler of an earlier frame is still awaiting the store.
C10_FramesOneAtATime ==
  [][\A c \in Conns :
       frames'[c] > frames[c] => \A s \in Slots : hand[c][s].pc = "idle"]_vars

\* C11: when a leave makes a room's membership reach zero, the room's meta,
\* members, count and jtis keys and every jti marker of the room are gone
\* after it.
C11_LastLeaveRemovesAllKeys ==
  [][(/\ HeadIs("leave")
      /\ leaveDeletesRoom(Head(redisQ))
      /\ redisQ' # redisQ
      /\ Len(redisQ') <= Len(redisQ)) =>
       LET r == Head(redisQ).rid IN
         /\ r \notin meta'
         /\ members'[r] = {}
         /\ count'[r] = NoKey
         /\ jtis'[r] = {}
         /\ \A j \in Jtis : <<r, j>> \notin jtiKeys']_vars

\* C12: a JOIN_REQUEST whose tryJoin runs when the room's count equals
\* ROOM_MAX_PARTICIPANTS is answered ROOM_FULL, and the same JOIN_REQUEST (same
\* connection, same unexpired token), made again when a leave has brought the
\* count below the maximum, succeeds.
C12_FullThenRetrySucceeds ==
  [][/\ (/\ HeadIs("tryJoin")
         /\ redisQ' = Tail(redisQ)
         /\ evt'.kind = "join_reply"
         /\ Head(redisQ).rid \in meta
         /\ Head(redisQ).conn \notin members[Head(redisQ).rid]
         /\ count[Head(redisQ).rid] = ROOM_MAX_PARTICIPANTS)
        => evt'.code = "ERR_ROOM_FULL"
     /\ (/\ evt'.kind = "join_reply"
         /\ <<evt'.conn, evt'.jti>> \in fullFor
         /\ evt'.jti \notin tokExpired
         /\ evt'.rid \in meta
         /\ count[evt'.rid] < ROOM_MAX_PARTICIPANTS)
        => evt'.code = "JOINED"]_vars

\* C15 (as stated): when an APP_MSG is relayed, every open member of the
\* router's snapshot whose outbound buffer is over 4 x MAX_WS_MSG_BYTES is closed
\* with 1008 "slow consumer" and gets no frame, every other open member of the
\* snapshot gets the frame, and the sender's socket stays open.
C15_SlowConsumerEvictedSenderStays ==
  [][(evt'.kind = "app_msg" /\ evt'.code = "OK") =>
       LET f == Frame("APP_MSG", evt'.rid, evt'.x, FALSE)
           snap == IF evt'.rid \in localDom
                     THEN {d \in localConns[evt'.rid] : d \in connections /\ sock[d] = "open"}
                     ELSE {}
       IN /\ \A d \in snap \cap evt'.slow :
               /\ sock'[d] = "closed"
               /\ evClose'[d]
               /\ sent'[d] = << >>
               /\ \E i \in DOMAIN wrote' : wrote'[i] = Wrote(d, "1008 slow consumer")
          /\ \A d \in snap \ evt'.slow : sent'[d] = <<f>> /\ sock'[d] = "open"
          /\ sock'[evt'.conn] = "open"]_vars

\* C15 (amended): as above, but the sender's socket stays open only if the
\* sender is not itself a member whose buffer is over the threshold: the
\* broadcast treats the sender like any recipient.
C15_SlowConsumerEvicted ==
  [][(evt'.kind = "app_msg" /\ evt'.code = "OK") =>
       LET f == Frame("APP_MSG", evt'.rid, evt'.x, FALSE)
           snap == IF evt'.rid \in localDom
                     THEN {d \in localConns[evt'.rid] : d \in connections /\ sock[d] = "open"}
                     ELSE {}
       IN /\ \A d \in snap \cap evt'.slow :
               /\ sock'[d] = "closed"
               /\ evClose'[d]
               /\ sent'[d] = << >>
               /\ \E i \in DOMAIN wrote' : wrote'[i] = Wrote(d, "1008 slow consumer")
          /\ \A d \in snap \ evt'.slow : sent'[d] = <<f>> /\ sock'[d] = "open"
          /\ (evt'.conn \notin evt'.slow => sock'[evt'.conn] = "open")]_vars

\* a relay closed a slow member and still served the sender, who stays open
C15_Witness ==
  /\ evt.kind = "app_msg"
  /\ evt.code = "OK"
  /\ evt.slow # {}
  /\ evt.conn \notin evt.slow
  /\ sent[evt.conn] = <<Frame("APP_MSG", evt.rid, evt.x, FALSE)>>
  /\ sock[evt.conn] = "open"
  /\ \A d \in evt.slow : sock[d] = "closed" /\ sent[d] = << >>

\* C20: in the step that answers a successful join or leave, the JOINED or LEFT
\* reply to the actor is written before every SYSTEM_MSG of the step, and every
\* SYSTEM_MSG before every ROOM_STATS.
C20_ReplyThenSystemThenStats ==
  [][(\/ evt'.kind = "join_reply" /\ evt'.code = "JOINED"
      \/ evt'.kind = "leave_reply" /\ evt'.code = "LEFT") =>
       LET rank(t) == IF t \in {"JOINED", "LEFT"} THEN 1
                      ELSE IF t = "SYSTEM_MSG" THEN 1 + 1
                      ELSE IF t = "ROOM_STATS" THEN 1 + 1 + 1
                      ELSE 0
       IN \A i, j \in DOMAIN wrote' :
            (/\ rank(wrote'[i].t) > 0
             /\ rank(wrote'[i].t) < rank(wrote'[j].t)) => i < j]_vars

\* ---- the rate check: what the claims speak of ---------------------------------
RECURSIVE SumCharged(_, _, _)
\* messages (bytes) charged to c in the ticks of age 0..a
SumCharged(c, a, field) ==
  IF a < 0 THEN 0 ELSE charged[c][a][field] + SumCharged(c, a - 1, field)
\* the age of the first tick of the bucket's current refill period
PeriodAge(b) == (now - b.lastRefillMs) % REFILL_EVERY_MS
\* this step received a frame from c
Received(c) == frames'[c] = frames[c] + 1
\* this step closed c with 1008 "rate limit exceeded"
RateClosed(c) ==
  /\ sock[c] = "open" /\ sock'[c] = "closed" /\ evClose'[c]
  /\ \E i \in DOMAIN wrote' : wrote'[i] = Wrote(c, "1008 rate limit exceeded")
\* this step left every connection but c as it was
OthersUntouched(c) ==
  /\ \A d \in Conns \ {c} :
       /\ sock'[d] = sock[d]
       /\ ctxRoom'[d] = ctxRoom[d]
       /\ msgBucket'[d] = msgBucket[d]
       /\ bytesBucket'[d] = bytesBucket[d]
  /\ UNCHANGED <<members, count, localDom, localConns, connections>>

\* C13 (as stated): in every window of REFILL_EVERY_MS ticks (10 s) the messages
\* a connection's bucket took are at most MAX_MSGS_PER_10S and the bytes at most
\* MAX_BYTES_PER_10S.
C13_ChargedPerWindow ==
  \A c \in Conns :
    /\ SumCharged(c, REFILL_EVERY_MS - 1, "msgs") <= MAX_MSGS_PER_10S
    /\ SumCharged(c, REFILL_EVERY_MS - 1, "bytes") <= MAX_BYTES_PER_10S

\* C13 (amended): the bound holds in every refill period of the connection's
\* buckets (the 10 s intervals counted from its admission), and a frame that
\* one of the buckets cannot take closes the connection with 1008.
C13_ChargedPerRefillPeriod ==
  [][\A c \in Conns :
       /\ SumCharged(c, PeriodAge(msgBucket[c]), "msgs")' <= MAX_MSGS_PER_10S
       /\ SumCharged(c, PeriodAge(bytesBucket[c]), "bytes")' <= MAX_BYTES_PER_10S
       /\ (/\ Received(c)
           /\ rx'.bytes <= MAX_WS_MSG_BYTES
           /\ \/ msgRefilled(c).tokens < 1
              \/ bytesRefilled(c).tokens < rx'.bytes)
          => RateClosed(c)]_vars

\* a connection spent its whole messages bucket within one refill period and
\* its next frame closed it
C13_Witness ==
  /\ evt.kind = "rate_limit"
  /\ sock[evt.conn] = "closed"
  /\ SumCharged(evt.conn, PeriodAge(msgBucket[evt.conn]), "msgs") = MAX_MSGS_PER_10S

\* C14 (as stated): a frame that follows, within 10 s, MAX_MSGS_PER_10S frames
\* taken starting from a full bucket closes the connection with 1008 "rate limit
\* exceeded" and touches no other connection; the frames before it are taken.
C14_CloseOnFrameBeyondCapacity ==
  [][\A c \in Conns :
       (Received(c) /\ rx'.bytes <= MAX_WS_MSG_BYTES) =>
         /\ (/\ burst[c].n >= MAX_MSGS_PER_10S
             /\ now - burst[c].start < REFILL_EVERY_MS)
            => (RateClosed(c) /\ OthersUntouched(c))
         /\ (/\ \/ msgRefilled(c).tokens = MAX_MSGS_PER_10S
                \/ burst[c].n < MAX_MSGS_PER_10S
             /\ bytesRefilled(c).tokens >= rx'.bytes)
            => ~RateClosed(c)]_vars

\* C14 (amended): the same, when no refill of the bucket is due between the
\* first of those frames and the one beyond capacity.
C14_CloseOnFrameBeyondCapacityInPeriod ==
  [][\A c \in Conns :
       (Received(c) /\ rx'.bytes <= MAX_WS_MSG_BYTES) =>
         /\ (/\ burst[c].n >= MAX_MSGS_PER_10S
             /\ now - msgBucket[c].lastRefillMs < REFILL_EVERY_MS)
            => (RateClosed(c) /\ OthersUntouched(c))
         /\ (/\ \/ msgRefilled(c).tokens = MAX_MSGS_PER_10S
                \/ burst[c].n < MAX_MSGS_PER_10S
             /\ bytesRefilled(c).tokens >= rx'.bytes)
            => ~RateClosed(c)]_vars

\* a member of a room of two was closed on the frame after MAX_MSGS_PER_10S
\* taken ones, the last of them a relayed APP_MSG; the other member is still
\* open and in the room
C14_Witness ==
  /\ evt.kind = "rate_limit"
  /\ burst[evt.conn].n = MAX_MSGS_PER_10S
  /\ \E d \in Conns \ {evt.conn}, r \in Rooms :
       /\ sock[d] = "open"
       /\ ctxRoom[d] = r
       /\ {d, evt.conn} \subseteq localConns[r]
       /\ {d, evt.conn} \subseteq members[r]

\* C16: a connection that is open and has not answered a ping the sweep sent it
\* at time t is terminated by time t + WS_PING_INTERVAL_MS + WS_PING_TIMEOUT_MS:
\* past that time it is never still open.
C16_SilentClientTerminated ==
  \A c \in Conns :
    (sock[c] = "open" /\ pingAt[c] # NoPing) =>
      now - pingAt[c] <= pingCfg.interval + pingCfg.timeout

\* the sweep has terminated a connection that left a ping unanswered
C16_Witness ==
  /\ evt.kind = "sweep"
  /\ \E c \in Conns :
       /\ pingAt[c] # NoPing
       /\ sock[c] = "closed"
       /\ \E i \in DOMAIN wrote : wrote[i] = Wrote(c, "terminate")

\* C17: when Redis is unreachable, a ROOM_CREATE, JOIN_REQUEST or LEAVE whose
\* store command fails is answered with a retryable ERROR frame and leaves the
\* connection's room, the router entry and the store's members in agreement;
\* and an APP_MSG of a room member is still relayed to the room's open sockets.
C17_StoreDownFailsClosed ==
  [][/\ (evt'.kind = "store_error" /\ evt'.x = "message") =>
          LET c == evt'.conn IN
          /\ \E i \in DOMAIN sent'[c] : sent'[c][i].t = "ERROR" /\ sent'[c][i].retryable
          /\ \A rid \in Rooms :
               /\ (ctxRoom'[c] = rid) <=> (c \in localConns'[rid])
               /\ (ctxRoom'[c] = rid) <=> (c \in members'[rid])
     /\ (evt'.kind = "app_msg" /\ evt'.code = "OK" /\ ~storeUp) =>
          \A d \in (localConns[evt'.rid] \cap connections \cap OpenSet) \ evt'.slow :
            \E i \in DOMAIN sent'[d] : sent'[d][i].t = "APP_MSG"
    ]_vars

C18_RoundTripAndBitFlip ==
  verdict # NoVerdict =>
    IF flipAt = NoFlip
      THEN verdict.ok /\ verdict.payload = minted
      ELSE ~verdict.ok /\ verdict.code \in {"ERR_TOKEN_MAC", "ERR_TOKEN_FORMAT"}

\* C21: when the tryJoin of a JOIN_REQUEST (its token verified and marked by
\* this request) runs on a room whose count equals ROOM_MAX_PARTICIPANTS and
\* the requester is not a member, the only frame written in the step is ERROR
\* ROOM_FULL retryable=true to the requester, no other socket is written to or
\* closed, members and count of the room are unchanged, and the requester has
\* no room in its context, in the router or in the store.
C21_RoomFullAnswer ==
  [][(/\ HeadIs("tryJoin")
      /\ redisQ' = Tail(redisQ)
      /\ Head(redisQ).rid \in meta
      /\ Head(redisQ).conn \notin members[Head(redisQ).rid]
      /\ count[Head(redisQ).rid] = ROOM_MAX_PARTICIPANTS)
     => LET c == Head(redisQ).conn
            rid == Head(redisQ).rid
        IN /\ evt' = EvtC("join_reply", c, rid, Head(redisQ).jti, "ERR_ROOM_FULL")
           /\ \A i \in DOMAIN sent'[c] : sent'[c][i] = ErrorFrame("ERR_ROOM_FULL", TRUE)
           /\ Len(sent'[c]) <= 1
           /\ \A d \in Conns \ {c} : sent'[d] = << >>
           /\ sock' = sock
           /\ members' = members /\ count' = count /\ meta' = meta
           /\ ctxRoom'[c] = None /\ ctxRoom' = ctxRoom
           /\ localConns' = localConns
           /\ c \notin members'[rid]]_vars

\* a third socket asked to join a room of two with a fresh token and got the
\* ROOM_FULL error frame; the two members are still the room
C21_Witness ==
  /\ evt.kind = "join_reply"
  /\ evt.code = "ERR_ROOM_FULL"
  /\ sent[evt.conn] = <<ErrorFrame("ERR_ROOM_FULL", TRUE)>>
  /\ <<evt.rid, evt.jti>> \in jtiKeys
  /\ ctxRoom[evt.conn] = None
  /\ count[evt.rid] = ROOM_MAX_PARTICIPANTS
  /\ Cardinality(members[evt.rid]) = ROOM_MAX_PARTICIPANTS
  /\ evt.conn \notin members[evt.rid]

\* C22: in the standalone server a JOIN_REQUEST that arrives presenting a token
\* string an accepted join has presented before, the token not yet expired,
\* does not make its connection a participant.
C22_StandaloneTokenSingleUse ==
  [][wsEvt'.kind = "joined" => wsEvt'.conn \notin wsLate]_vars

\* C23: take(n), for n >= 0, leaves the bucket as if it had first been refilled
\* by periods = floor((now - lastRefillMs) / refillEveryMs), tokens becoming
\* min(capacity, tokens + periods x refillTokens) and lastRefillMs advancing by
\* periods x refillEveryMs, and then returns true and deducts n iff the
\* refilled tokens are >= n, and otherwise returns false and deducts nothing;
\* 0 <= tokens <= capacity after every take.
C23_TakeRefillsThenDeducts ==
  [][tbRet'.seq # tbRet.seq =>
       LET n == tbRet'.n
           periods == (now - tb.lastRefillMs) \div tbCfg.refillEveryMs
           filled == Min(tbCfg.capacity, tb.tokens + periods * tbCfg.refillTokens)
       IN /\ tb'.lastRefillMs = tb.lastRefillMs + periods * tbCfg.refillEveryMs
          /\ tbRet'.ok <=> filled >= n
          /\ tb'.tokens = (IF filled >= n THEN filled - n ELSE filled)
          /\ 0 <= tb'.tokens /\ tb'.tokens <= tbCfg.capacity]_vars

\* an empty bucket left alone for two periods or more took take(capacity) and
\* is empty again
C23_Witness ==
  /\ tbRet.seq > 1
  /\ tbRet.found.tokens = 0
  /\ tbRet.at - tbRet.found.lastRefillMs >= 2 * tbCfg.refillEveryMs
  /\ tbRet.n = tbCfg.capacity
  /\ tbRet.ok
  /\ tb.tokens = 0
  /\ tb.lastRefillMs > tbRet.found.lastRefillMs

\* C24: a connection attempt rejected for the global limit or for the per-ip
\* limit leaves the global meter and every per-ip count at the values they had
\* before the attempt, and registers no connection: the connections map, every
\* ctx and the router are as before.
C24_RejectConsumesNoSlot ==
  [][evt'.kind \in {"reject_global", "reject_ip"} =>
       /\ globalCount' = globalCount
       /\ ipCounts' = ipCounts
       /\ UNCHANGED <<engineVars, sock, connIp>>]_vars

\* an attempt from an ip at its limit was rejected while the server had room:
\* the global slot it had taken was given back
C24_Witness ==
  /\ evt.kind = "reject_ip"
  /\ \E ip \in Ips : ipCounts[ip] = MAX_CONNS_PER_IP
  /\ globalCount = MAX_CONNS_PER_IP
  /\ globalCount < MAX_TOTAL_CONNECTIONS
  /\ Cardinality(connections) = globalCount

\* C25: the sweep terminates a connection only if a ping it sent to the
\* connection WS_PING_TIMEOUT_MS or more before is still unanswered (the earliest
\* ping sent since the connection's last pong is that old).
C25_TerminatedOnlyAfterPingTimeout ==
  [][\A c \in Conns :
       (evt'.kind = "sweep" /\ sock[c] = "open" /\ sock'[c] = "closed") =>
         /\ pingAt[c] # NoPing
         /\ now - pingAt[c] >= pingCfg.timeout]_vars

\* C26: in the step that completes the leave of a room member (LEAVE frame or
\* disconnect) and leaves the room in existence, every remaining member the
\* router knows whose socket is open and stays open is sent exactly SYSTEM_MSG
\* "left" followed by ROOM_STATS with the remaining count, whoever the leaver
\* is.
C26_LeaveAnnouncedToRemaining ==
  [][(/\ HeadIs("leave")
      /\ redisQ' = Tail(redisQ)
      /\ Head(redisQ).conn \in members[Head(redisQ).rid]
      /\ Head(redisQ).rid \in meta')
     => LET rid == Head(redisQ).rid IN
        \A d \in localConns'[rid] \cap connections :
          (sock[d] = "open" /\ sock'[d] = "open") =>
            sent'[d] = <<Frame("SYSTEM_MSG", rid, "left", FALSE),
                         Frame("ROOM_STATS", rid, count'[rid], FALSE)>>]_vars

TokenCodes == {"ERR_TOKEN_EXPIRED", "ERR_TOKEN_REPLAY", "ERR_TOKEN_MAC",
               "ERR_TOKEN_FORMAT", "ERR_TOKEN_ROOM_MISMATCH"}
C28_RetryableByTokenCode ==
  [][(evt'.kind = "join_reply" /\ evt'.code \in TokenCodes)
     => \A i \in DOMAIN sent'[evt'.conn] :
          sent'[evt'.conn][i] =
            Frame("ERROR", None, evt'.code,
                  evt'.code \in {"ERR_TOKEN_EXPIRED", "ERR_TOKEN_REPLAY", "ERR_TOKEN_MAC"})]_vars

\* C29: the join steps run in the order verify, room and expiry checks,
\* mark_jti, try_join, each only after the one before it passed.  A
\* JOIN_REQUEST whose token fails verification (MAC or format), is for
\* another room than the one named, or is expired is answered at once: no
\* store command is issued, no jti marker is set, and the store, the router,
\* every ctx and every socket stay as they were.  A marker is asked for only
\* for a verified, unexpired token of the named room, from a connection in
\* no room; tryJoin is issued only by the handler whose marker was granted.
PreMarkCodes == {"ERR_TOKEN_MAC", "ERR_TOKEN_FORMAT", "ERR_TOKEN_ROOM_MISMATCH",
                 "ERR_TOKEN_EXPIRED"}
Issued(op) ==
  /\ redisQ' # << >> /\ redisQ' # redisQ
  /\ redisQ'[Len(redisQ')].op = op
  /\ (redisQ' = Append(redisQ, redisQ'[Len(redisQ')])
      \/ (redisQ # << >> /\ redisQ' = Append(Tail(redisQ), redisQ'[Len(redisQ')])))
C29_JoinStepsInOrder ==
  [][/\ (evt'.kind = "join_reply" /\ evt'.code \in PreMarkCodes)
        => /\ UNCHANGED <<storeVars, redisQ, hand, engineVars, meterVars, sockVars, tokVars>>
           /\ accepts' = accepts
           /\ Len(sent'[evt'.conn]) <= 1
           /\ \A d \in Conns \ {evt'.conn} : sent'[d] = << >>
     /\ Issued("setnx")
        => LET cmd == redisQ'[Len(redisQ')] IN
           /\ cmd.jti \in Jtis
           /\ tokRid[cmd.jti] = cmd.rid
           /\ cmd.jti \notin tokExpired
           /\ ctxRoom[cmd.conn] = None
           /\ evt'.kind # "join_reply"
           /\ UNCHANGED <<storeVars, engineVars>>
     /\ Issued("addjti")
        => LET cmd == redisQ'[Len(redisQ')] IN
           /\ HeadIs("setnx")
           /\ Head(redisQ).h = cmd.h /\ Head(redisQ).rid = cmd.rid
           /\ Head(redisQ).jti = cmd.jti
           /\ <<cmd.rid, cmd.jti>> \notin jtiKeys
           /\ <<cmd.rid, cmd.jti>> \in jtiKeys'
     /\ Issued("tryJoin")
        => LET cmd == redisQ'[Len(redisQ')] IN
           /\ HeadIs("addjti")
           /\ Head(redisQ).h = cmd.h /\ Head(redisQ).rid = cmd.rid
           /\ Head(redisQ).jti = cmd.jti
           /\ <<cmd.rid, cmd.jti>> \in jtiKeys
           /\ members' = members /\ count' = count]_vars
C29_Witness ==
  /\ evt.kind = "join_reply" /\ evt.code = "ERR_TOKEN_EXPIRED"
  /\ sent[evt.conn] = <<Frame("ERROR", None, "ERR_TOKEN_EXPIRED", TRUE)>>
  /\ evt.rid \in meta
  /\ evt.jti \in Jtis
  /\ tokRid[evt.jti] = evt.rid
  /\ <<evt.rid, evt.jti>> \notin jtiKeys
  /\ accepts[evt.jti] = 0
  /\ ctxRoom[evt.conn] = None
  /\ redisQ = << >>

\* this step closed c with policy-violation (1008)
PolicyClosed(c) ==
  /\ sock[c] = "open" /\ sock'[c] = "closed" /\ evClose'[c]
  /\ \E i \in DOMAIN wrote' :
       wrote'[i] \in {Wrote(c, "1008 rate limit exceeded"), Wrote(c, "1008 message too large")}
\* the frame c sent did nothing but close c's socket: no reply, no broadcast,
\* no store command, no TTL touch
NoOtherEffect(c) ==
  /\ sent' = NoSent
  /\ Len(wrote') = 1
  /\ touches' = touches
  /\ \A d \in Conns \ {c} :
       sock'[d] = sock[d] /\ msgBucket'[d] = msgBucket[d] /\ bytesBucket'[d] = bytesBucket[d]
  /\ UNCHANGED <<storeVars, redisQ, engineVars, meterVars, hand, tokVars, nextRoom>>
\* the buckets of c took one message and `bytes` bytes
TookBoth(c, bytes) ==
  /\ msgBucket'[c] = [msgRefilled(c) EXCEPT !.tokens = @ - 1]
  /\ bytesBucket'[c] = [bytesRefilled(c) EXCEPT !.tokens = @ - bytes]

\* C30 (as stated): every incoming frame is charged before it is parsed, one
\* token to the sender's messages bucket and its byte length to the bytes
\* bucket, whether or not the frame then passes schema validation; when one of
\* the buckets cannot take it the connection is closed with 1008 and the frame
\* has no other effect.
C30_EveryFrameCharged ==
  [][\A c \in Conns :
       Received(c) =>
         IF msgRefilled(c).tokens >= 1 /\ bytesRefilled(c).tokens >= rx'.bytes
           THEN TookBoth(c, rx'.bytes)
           ELSE PolicyClosed(c) /\ NoOtherEffect(c)]_vars

\* C30 (amended): the same for every frame of at most MAX_WS_MSG_BYTES bytes,
\* the bytes bucket being asked only when the messages bucket took the frame
\* and the messages bucket keeping what it took; a larger frame closes the
\* connection with 1008 before either bucket is asked, and has no other effect.
C30_FrameWithinSizeCharged ==
  [][\A c \in Conns :
       Received(c) =>
         LET bytes == rx'.bytes
             mOk == msgRefilled(c).tokens >= 1
             bOk == bytesRefilled(c).tokens >= bytes
         IN IF bytes > MAX_WS_MSG_BYTES
              THEN /\ PolicyClosed(c) /\ NoOtherEffect(c)
                   /\ wrote' = <<Wrote(c, "1008 message too large")>>
                   /\ msgBucket'[c] = msgBucket[c] /\ bytesBucket'[c] = bytesBucket[c]
            ELSE IF mOk /\ bOk
              THEN /\ TookBoth(c, bytes)
                   /\ ~PolicyClosed(c)
                   /\ evt'.kind = "invalid" =>
                        /\ wrote' = <<Wrote(c, "1003 invalid message")>>
                        /\ sock'[c] = "closed"
                        /\ touches' = touches /\ sent' = NoSent
              ELSE /\ PolicyClosed(c) /\ NoOtherEffect(c)
                   /\ wrote' = <<Wrote(c, "1008 rate limit exceeded")>>
                   /\ msgBucket'[c] = (IF mOk THEN [msgRefilled(c) EXCEPT !.tokens = @ - 1]
                                       ELSE msgRefilled(c))
                   /\ bytesBucket'[c] = (IF mOk THEN bytesRefilled(c) ELSE bytesBucket[c])]_vars

\* a connection's first frame, one that fails schema validation, was charged
\* to both of its buckets before the parser closed the connection
C30_Witness ==
  /\ evt.kind = "invalid"
  /\ rx.conn = evt.conn
  /\ frames[evt.conn] = 1
  /\ sock[evt.conn] = "closed"
  /\ wrote = <<Wrote(evt.conn, "1003 invalid message")>>
  /\ msgBucket[evt.conn].tokens = MAX_MSGS_PER_10S - 1
  /\ bytesBucket[evt.conn].tokens = MAX_BYTES_PER_10S - rx.bytes
  /\ rx.bytes > 0

\* no frame handler and no disconnect handler is at an await
Quiet ==
  /\ redisQ = << >>
  /\ \A c \in Conns : \A s \in {DiscSlot} \cup Slots : hand[c][s].pc = "idle"

\* C31: whenever no handler is in flight, every router entry holds at least
\* one connection id, and every id it holds is that of a registered
\* connection that has not disconnected and whose ctx.roomId is that room.
C31_RouterEntriesLive ==
  Quiet =>
    \A rid \in localDom :
      /\ localConns[rid] # {}
      /\ \A c \in localConns[rid] :
           c \in connections /\ ~disconnected[c] /\ ctxRoom[c] = rid

\* C32: while a router entry exists its timer is set and fires every
\* QR_ROTATION_MS, so that the entry's token always expires at the next
\* firing; each firing replaces the token by a fresh one expiring
\* QR_ROTATION_MS later, sends QR_ROTATED with that token to the entry's
\* connections (those open and not backlogged) and to nobody else, and
\* touches the room's keys.  A room without an entry has no timer and no
\* token, and no step rotates, announces or (frames aside) touches it.
C32_RotationWhileTracked ==
  [][/\ \A rid \in localDom' :
          /\ qrTimer'[rid] # NoKey
          /\ now' <= qrTimer'[rid] /\ qrTimer'[rid] <= now' + qrCfg
          /\ qrToken'[rid].exp = qrTimer'[rid]
     /\ \A rid \in Rooms \ localDom' : qrTimer'[rid] = NoKey /\ qrToken'[rid] = NoQr
     /\ evt'.kind = "rotate"
        => LET rid == evt'.rid IN
           /\ rid \in localDom /\ qrTimer[rid] = now
           /\ qrToken'[rid].jti > qrMinted /\ qrMinted' = qrToken'[rid].jti
           /\ qrToken'[rid].exp = now + qrCfg
           /\ touches' = [touches EXCEPT ![rid] = @ + 1]
           /\ \A k \in KeyNames :
                pexpireAt'[rid][k] = (IF KeyExists(Store, rid, k) THEN now + ROOM_KEY_TTL_MS
                                     ELSE NoKey)
           /\ \A d \in Conns :
                /\ (d \in localConns[rid] /\ d \in connections
                    /\ sock[d] = "open" /\ sock'[d] = "open")
                   => sent'[d] = <<Frame("QR_ROTATED", rid, qrToken'[rid].jti, FALSE)>>
                /\ d \notin localConns[rid] => sent'[d] = << >>
           /\ UNCHANGED <<storeVars, engineVars>>
     /\ \A rid \in Rooms \ localDom :
          /\ \A d \in Conns : \A i \in DOMAIN sent'[d] :
               ~(sent'[d][i].t = "QR_ROTATED" /\ sent'[d][i].rid = rid)
          /\ frames' = frames => touches'[rid] = touches[rid]]_vars

\* an entry with two open members was rotated a second time: both were sent
\* the new token
C32_Witness ==
  /\ evt.kind = "rotate"
  /\ qrToken[evt.rid].jti > 2
  /\ touches[evt.rid] > 1
  /\ \E c, d \in localConns[evt.rid] :
       /\ c # d
       /\ sent[c] = <<Frame("QR_ROTATED", evt.rid, qrToken[evt.rid].jti, FALSE)>>
       /\ sent[d] = sent[c]
  /\ evt.rid \in meta
  /\ pexpireAt[evt.rid]["meta"] = now + ROOM_KEY_TTL_MS

\* C38: while a room has a connected member, the passing of time removes none
\* of its keys, for every allowed QR_ROTATION_MS and ROOM_KEY_TTL_MS
ConnectedMember(rid) ==
  \E c \in members[rid] : c \in connections /\ ~disconnected[c]
C38_MemberKeepsKeys ==
  [][\A rid \in Rooms :
       (now' > now /\ rid \in meta /\ ConnectedMember(rid))
         => /\ rid \in meta'
            /\ members'[rid] = members[rid]
            /\ count'[rid] = count[rid]]_vars

\* C34: a LEAVE naming a room that is not the sender's current room changes no
\* membership in the store or the router, leaves the sender's current room as
\* it is, starts no store command, and sends nothing to anybody but a LEFT to
\* the sender
LeaveFrom(c, rid) ==
  /\ frames'[c] = frames[c] + 1
  /\ \/ evt'.kind = "leave_reply" /\ evt'.conn = c /\ evt'.rid = rid
     \/ \E s \in Slots : hand[c][s].pc = "idle" /\ hand'[c][s] = Handler("leave", rid, None)
C34_LeaveOfOtherRoom ==
  [][\A c \in Conns, rid \in Rooms :
       (LeaveFrom(c, rid) /\ ctxRoom[c] # rid)
         => /\ UNCHANGED <<storeVars, redisQ, engineVars, hand>>
            /\ \A d \in Conns \ {c} : sent'[d] = << >>
            /\ sent'[c] \in {<< >>, <<Frame("LEFT", rid, None, FALSE)>>}]_vars

\* a member of one room sent LEAVE for the other room and was answered LEFT
C34_Witness ==
  /\ evt.kind = "leave_reply"
  /\ evt.code = "NOT_MEMBER"
  /\ ctxRoom[evt.conn] \in Rooms \ {evt.rid}
  /\ evt.conn \in localConns[ctxRoom[evt.conn]]
  /\ evt.conn \in members[ctxRoom[evt.conn]]
  /\ sent[evt.conn] = <<Frame("LEFT", evt.rid, None, FALSE)>>

\* C35: the global meter reads the number of entries of the connection
\* registry, and the ip meter reads, for every ip, the number of registered
\* connections from that ip (0: the ip has no entry); admission and
\* onDisconnect's finally block change meters and registry in one step, so
\* this holds after every admission and every completed disconnect
FromIp(ip) == {c \in connections : connIp[c] = ip}
C35_MetersEqualRegistry ==
  /\ globalCount = Cardinality(connections)
  /\ \A ip \in Ips : ipCounts[ip] = Cardinality(FromIp(ip))

\* a socket was admitted after another's disconnect had completed, while one
\* ip holds a connection and the other ip's entry is gone
C35_Witness ==
  /\ evt.kind = "admit"
  /\ \E c \in Conns : decs[c] = 1 /\ c \notin connections /\ ipCounts[connIp[c]] = 0
  /\ \E ip \in Ips : ipCounts[ip] > 0
  /\ globalCount > 0

\* C36: whenever no frame or disconnect handler is in flight, the router's
\* connection set of every room equals the store's members set of the room,
\* and the participants value of the last ROOM_STATS broadcast for a room the
\* store holds equals the store's count of that room
RouterSet(rid) == IF rid \in localDom THEN localConns[rid] ELSE {}
C36_RouterMirrorsStore ==
  Quiet =>
    \A rid \in Rooms :
      /\ RouterSet(rid) = members[rid]
      /\ (rid \in meta /\ lastStats[rid] # 0) => lastStats[rid] = count[rid]

\* C37: a sweep does not terminate a connection that has answered every ping
\* sent to it so far, however long ago its last pong was: it pings it again
Answered(c) == pingAt[c] = NoPing
C37_AnsweringPeerSurvives ==
  [][\A c \in connections :
       (evt'.kind = "sweep" /\ sock[c] = "open" /\ Answered(c))
         => /\ sock'[c] = "open"
            /\ ~evClose'[c]
            /\ \E i \in 1..Len(wrote') : wrote'[i] = Wrote(c, "ping")]_vars

\* a sweep pinged a connection again whose pong to the ping before is older
\* than WS_PING_TIMEOUT_MS
C37_Witness ==
  /\ evt.kind = "sweep"
  /\ \E c \in connections :
       /\ sock[c] = "open"
       /\ pingAt[c] = now
       /\ lastPongMs[c] > 0
       /\ now - lastPongMs[c] > pingCfg.timeout

\* C39: a jti marker or a jtis set exists for a room id only if the room's meta
\* key exists; so a JOIN_REQUEST answered ERR_NO_ROOM leaves no key of that
\* room id behind
C39_NoKeyWithoutMeta ==
  \A rid \in Rooms :
    (jtis[rid] # {} \/ \E j \in Jtis : <<rid, j>> \in jtiKeys) => rid \in meta

\* C40: no two current members of a room hold the same server-assigned label
\* P<n>
CurrentMember(c, rid) == ctxRoom[c] = rid /\ c \in members[rid] /\ c \in connections
C40_LabelsUnique ==
  \A rid \in Rooms : \A c, d \in Conns :
    (c # d /\ CurrentMember(c, rid) /\ CurrentMember(d, rid) /\ ctxLabel[c] # None)
      => ctxLabel[c] # ctxLabel[d]

\* C33: after a shutdown signal the process eventually exits, and it does not
\* run past GRACEFUL_SHUTDOWN_TIMEOUT_MS after the first signal, whatever
\* fastify.close() does and whatever sockets and store calls are outstanding
Signalled == signalAt # NoKey
Next ==
  \/ \E ip \in Ips : FewAdmitted /\ NextIp(ip) /\ Admit(ip) /\ UNCHANGED auxVars
  \/ \E c \in Conns : MayRecv(c) /\ RecvBad(c) /\ UNCHANGED auxVars
  \/ \E c \in Conns : MayRecv(c) /\ RecvPing(c) /\ UNCHANGED auxVars
  \/ \E c \in Conns, s \in Slots : MayRecv(c) /\ RecvRoomCreate(c, s) /\ UNCHANGED auxVars
  \/ ResumeCreateRoom /\ UNCHANGED auxVars
  \/ \E c \in Conns, s \in Slots, rid \in Rooms, tok \in {None} \cup Jtis : MayRecv(c) /\ RecvJoin(c, s, rid, tok) /\ UNCHANGED auxVars
  \/ ResumeMarkSet /\ UNCHANGED auxVars
  \/ ResumeMarkAdd /\ UNCHANGED auxVars
  \/ ResumeTryJoin /\ UNCHANGED auxVars
  \/ \E c \in Conns, s \in Slots, rid \in Rooms : MayRecv(c) /\ RecvLeave(c, s, rid) /\ UNCHANGED auxVars
  \/ ResumeLeave /\ UNCHANGED auxVars
  \/ \E c \in Conns, rid \in Rooms, ct \in Cts, tooLarge \in BOOLEAN : MayRecv(c) /\ RecvAppMsg(c, rid, ct, tooLarge) /\ UNCHANGED auxVars
  \/ \E c \in Conns : SocketClose(c) /\ UNCHANGED auxVars
  \/ \E c \in Conns : SocketError(c) /\ UNCHANGED auxVars
  \/ \E c \in Conns : OnClose(c) /\ UNCHANGED auxVars
  \/ \E c \in Conns : OnError(c) /\ UNCHANGED auxVars
  \/ ResumeDisconnect /\ UNCHANGED auxVars

Spec == Init /\ [][Next]_vars

\* The room store under the engine, the HTTP routes and the passing of time;
\* each socket has one frame in flight at a time and names its own room,
\* and the clock passes the exp of consumed tokens only.
NextStore ==
  \/ \E ip \in Ips : FewAdmitted /\ NextIp(ip) /\ Admit(ip) /\ UNCHANGED auxVars
  \/ \E c \in Conns : MayRecv(c) /\ RecvRoomCreate(c, 1) /\ UNCHANGED auxVars
  \/ ResumeCreateRoom /\ UNCHANGED auxVars
  \/ \E c \in Conns, tok \in Jtis : MayRecv(c) /\ tokRid[tok] # None /\ RecvJoin(c, 1, tokRid[tok], tok) /\ UNCHANGED auxVars
  \/ ResumeMarkSet /\ UNCHANGED auxVars
  \/ ResumeMarkAdd /\ UNCHANGED auxVars
  \/ ResumeTryJoin /\ UNCHANGED auxVars
  \/ \E c \in Conns : MayRecv(c) /\ ctxRoom[c] # None /\ RecvLeave(c, 1, ctxRoom[c]) /\ UNCHANGED auxVars
  \/ ResumeLeave /\ UNCHANGED auxVars
  \/ \E c \in Conns : SocketClose(c) /\ UNCHANGED auxVars
  \/ \E c \in Conns : OnClose(c) /\ UNCHANGED auxVars
  \/ ResumeDisconnect /\ UNCHANGED auxVars
  \/ HttpCreateRoom /\ UNCHANGED auxVars
  \/ \E rid \in Rooms : HttpGetToken(rid) /\ UNCHANGED auxVars
  \/ \E j \in Jtis : <<tokRid[j], j>> \in jtiKeys /\ TokenExpire(j) /\ UNCHANGED auxVars
  \/ \E rid \in Rooms : ExpireRoom(rid) /\ UNCHANGED auxVars
  \/ \E rid \in Rooms : ExpireJtis(rid) /\ UNCHANGED auxVars
  \/ \E rid \in Rooms, j \in Jtis : ExpireMarker(rid, j) /\ UNCHANGED auxVars

SpecStore == InitStore /\ [][NextStore]_vars

\* Admission and disconnection alone: sockets from any ip, up to NumConns of
\* them, that open and go down without sending frames.
NextAdmit ==
  \/ \E ip \in Ips : Admit(ip) /\ UNCHANGED auxVars
  \/ \E c \in Conns : SocketClose(c) /\ UNCHANGED auxVars
  \/ \E c \in Conns : SocketError(c) /\ UNCHANGED auxVars
  \/ \E c \in Conns : OnClose(c) /\ UNCHANGED auxVars
  \/ \E c \in Conns : OnError(c) /\ UNCHANGED auxVars

SpecAdmit == Init /\ [][NextAdmit]_vars

\* One more socket than a room holds: up to NumConns sockets create, join and
\* leave with one frame in flight each, and stay open.
NextFull ==
  \/ \E ip \in Ips : FirstIp(ip) /\ Admit(ip) /\ UNCHANGED auxVars
  \/ \E c \in Conns : MayRecv(c) /\ nextRoom = 1 /\ RecvRoomCreate(c, 1) /\ UNCHANGED auxVars
  \/ ResumeCreateRoom /\ UNCHANGED auxVars
  \/ \E c \in Conns, tok \in Jtis : MayRecv(c) /\ tokRid[tok] # None /\ RecvJoin(c, 1, tokRid[tok], tok) /\ UNCHANGED auxVars
  \/ ResumeMarkSet /\ UNCHANGED auxVars
  \/ ResumeMarkAdd /\ UNCHANGED auxVars
  \/ ResumeTryJoin /\ UNCHANGED auxVars
  \/ \E c \in Conns : MayRecv(c) /\ ctxRoom[c] # None /\ RecvLeave(c, 1, ctxRoom[c]) /\ UNCHANGED auxVars
  \/ ResumeLeave /\ UNCHANGED auxVars

SpecFull == Init /\ [][NextFull]_vars

\* The rate check in front of the handlers: two sockets, the clock, and frames
\* of 1..MaxFrameBytes bytes; connection 1 creates the room and sends up to
\* MaxMetered frames, the other joins it with its only frame; store calls return within the tick.
NextBucket ==
  \/ redisQ = << >> /\ Tick(MaxTime) /\ UNCHANGED <<pingCfg, pingVars, sideVars>>
  \/ \E ip \in Ips : FewAdmitted /\ NextIp(ip) /\ Admit(ip) /\ NewBuckets /\ NewLiveness /\ UNCHANGED sideVars
  \/ \E bytes \in 1..MaxFrameBytes : MayRecvMetered(1) /\ RecvOversize(1, bytes) /\ UNCHANGED <<pingCfg, pingVars, sideVars>>
  \/ \E bytes \in 1..MaxFrameBytes : MayRecvMetered(1) /\ RecvOverLimit(1, bytes) /\ UNCHANGED <<pingCfg, pingVars, sideVars>>
  \/ \E bytes \in 1..MaxFrameBytes :
       MayRecvMetered(1) /\ nextRoom = 1 /\ RecvRoomCreate(1, 1) /\ Charge(1, bytes) /\ UNCHANGED <<pingCfg, pingVars, sideVars>>
  \/ ResumeCreateRoom /\ UNCHANGED auxVars
  \/ \E c \in Conns \ {1}, tok \in Jtis, bytes \in 1..MaxFrameBytes :
       /\ frames[c] = 0 /\ tokRid[tok] # None
       /\ RecvJoin(c, 1, tokRid[tok], tok) /\ Charge(c, bytes) /\ UNCHANGED <<pingCfg, pingVars, sideVars>>
  \/ ResumeMarkSet /\ UNCHANGED auxVars
  \/ ResumeMarkAdd /\ UNCHANGED auxVars
  \/ ResumeTryJoin /\ UNCHANGED auxVars
  \/ \E ct \in {"AAA"}, bytes \in 1..MaxFrameBytes :
       /\ MayRecvMetered(1) /\ ctxRoom[1] # None
       /\ RecvAppMsg(1, ctxRoom[1], ct, FALSE) /\ Charge(1, bytes) /\ UNCHANGED <<pingCfg, pingVars, sideVars>>
  \/ \E c \in Conns : OnClose(c) /\ UNCHANGED auxVars
  \/ ResumeDisconnect /\ UNCHANGED auxVars

SpecBucket == Init /\ [][NextBucket]_vars

\* The keep-alive: sockets that open at any time and answer a ping or not; the
\* timer callback runs when it is due, before the clock moves on.
NextPing ==
  \/ ~SweepDue /\ Tick(MaxPingTime) /\ UNCHANGED <<pingCfg, pingVars, sideVars>>
  \/ \E ip \in Ips : FewAdmitted /\ NextIp(ip) /\ Admit(ip) /\ NewBuckets /\ NewLiveness /\ UNCHANGED sideVars
  \/ Sweep /\ UNCHANGED sideVars
  \/ \E c \in Conns : awaitingPong[c] /\ Pong(c) /\ UNCHANGED sideVars
  \/ \E c \in Conns : OnClose(c) /\ UNCHANGED auxVars

SpecPing == InitPing /\ [][NextPing]_vars
\* The engine while the connection to Redis comes and goes.
NextDown ==
  \/ \E ip \in Ips : FewAdmitted /\ NextIp(ip) /\ Admit(ip) /\ UNCHANGED auxVars
  \/ \E c \in Conns : MayRecv(c) /\ nextRoom = 1 /\ RecvRoomCreate(c, 1) /\ Touch(c)
                          /\ UNCHANGED <<bucketVars, pingCfg, pingVars>>
  \/ storeUp /\ ResumeCreateRoom /\ UNCHANGED auxVars
  \/ \E c \in Conns, tok \in Jtis :
       /\ MayRecv(c) /\ tokRid[tok] # None
       /\ RecvJoin(c, 1, tokRid[tok], tok) /\ Touch(c)
       /\ UNCHANGED <<bucketVars, pingCfg, pingVars>>
  \/ storeUp /\ ResumeMarkSet /\ UNCHANGED auxVars
  \/ storeUp /\ ResumeMarkAdd /\ UNCHANGED auxVars
  \/ storeUp /\ ResumeTryJoin /\ UNCHANGED auxVars
  \/ \E c \in Conns :
       /\ MayRecv(c) /\ ctxRoom[c] # None
       /\ RecvLeave(c, 1, ctxRoom[c]) /\ Touch(c)
       /\ UNCHANGED <<bucketVars, pingCfg, pingVars>>
  \/ storeUp /\ ResumeLeave /\ UNCHANGED auxVars
  \/ \E c \in Conns :
       /\ MayRecv(c) /\ ctxRoom[c] # None
       /\ RecvAppMsg(c, ctxRoom[c], "AAA", FALSE) /\ Touch(c)
       /\ UNCHANGED <<bucketVars, pingCfg, pingVars>>
  \/ RedisClose
  \/ RedisReady
  \/ RejectHead
  \/ \E c \in Conns : OnClose(c) /\ UNCHANGED auxVars
  \/ storeUp /\ ResumeDisconnect /\ UNCHANGED auxVars
SpecDown == Init /\ [][NextDown]_vars
\* The RoomStore methods called in any order on a Redis whose keys expire.
NextTtl ==
  \/ TickExpire
  \/ \E rid \in Rooms, c \in Conns : rid \notin meta /\ StoreCall("createRoom", rid, c)
  \/ \E rid \in Rooms : rid \notin meta /\ StoreCall("createRoomEmpty", rid, None)
  \/ \E rid \in Rooms, c \in Conns : StoreCall("tryJoin", rid, c)
  \/ \E rid \in Rooms, c \in Conns : StoreCall("leave", rid, c)
  \/ \E rid \in Rooms : StoreCall("touch", rid, None)
SpecTtl == InitStore /\ [][NextTtl]_vars
\* A token is minted, possibly damaged in one bit, and verified.
NextCodec ==
  \/ \E j \in Jtis : MintToken(j)
  \/ \E i \in 1..MaxTokenLen, b \in 0..7 : FlipToken(i, b)
  \/ VerifyToken
SpecCodec == InitCodec /\ [][NextCodec]_vars
\* The standalone server: MaxAdmitted sockets that join and leave one room with the
\* tokens the HTTP route and the JOINED replies hand out, one frame in flight
\* per socket.
NextWs ==
  \/ wsNextConn <= MaxAdmitted /\ WsConnect
  \/ wsNextRoom = 1 /\ WsHttpCreateRoom
  \/ \E rid \in Rooms : Cardinality(wsTokens) < MaxWsTokens /\ WsHttpGetToken(rid)
  \/ \E c \in Conns, tok \in wsTokens \cup {NoTok} : WsRecvJoin(c, 1, tok)
  \/ \E c \in Conns : WsVerified(c)
  \/ \E c \in Conns : WsAfterVerify(c)
  \/ \E c \in Conns : WsAfterJoin(c)
  \/ \E c \in Conns : WsAfterMint(c)
  \/ \E c \in Conns : wsRoomId[c] # None /\ WsRecvLeave(c, wsRoomId[c])
  \/ \E c \in Conns : WsAfterLeave(c)
  \/ \E c \in Conns : WsDisconnect(c)
  \/ WsTick
SpecWs == Init /\ [][NextWs]_vars
\* A TokenBucket on its own: take(n) for any n from 0 to one over the largest
\* capacity, at any time.
NextTake ==
  \/ \E n \in 0..(MaxCapacity + 1) : TbTake(n)
  \/ TbTick
SpecTake == InitTake /\ [][NextTake]_vars

\* The join handler and every way it refuses: sockets that send one
\* JOIN_REQUEST at a time, for any room, with a token of any kind; one room
\* and its tokens from the HTTP routes; and the clock passing any token's exp.
NextJoin ==
  \/ \E ip \in Ips : FewAdmitted /\ NextIp(ip) /\ Admit(ip) /\ UNCHANGED auxVars
  \/ HttpCreateRoom /\ UNCHANGED auxVars
  \/ \E rid \in Rooms : HttpGetToken(rid) /\ UNCHANGED auxVars
  \/ \E c \in Conns, rid \in Rooms, tok \in {None, Malformed} \cup Jtis :
       MayRecv(c) /\ RecvJoin(c, 1, rid, tok) /\ UNCHANGED auxVars
  \/ ResumeMarkSet /\ UNCHANGED auxVars
  \/ ResumeMarkAdd /\ UNCHANGED auxVars
  \/ ResumeTryJoin /\ UNCHANGED auxVars
  \/ \E j \in Jtis : TokenExpire(j) /\ UNCHANGED auxVars

SpecJoin == Init /\ [][NextJoin]_vars

\* The message handler from its first line: a frame of any size and kind goes
\* through the size check, the two buckets, the parser and the TTL touch before
\* its handler runs.  Connection 1 sends up to MaxChargeFrames frames, the other
\* joins the room with its only frame; store calls return within the tick.
Parsed(c, bytes) == Charge(c, bytes) /\ Touch(c) /\ UNCHANGED <<pingCfg, pingVars>>
NextCharge ==
  \/ redisQ = << >> /\ Tick(MaxChargeTime) /\ UNCHANGED <<pingCfg, pingVars, sideVars>>
  \/ \E ip \in Ips : FewAdmitted /\ NextIp(ip) /\ Admit(ip) /\ NewBuckets /\ NewLiveness /\ UNCHANGED sideVars
  \/ \E bytes \in 1..MaxFrameBytes : frames[1] < MaxChargeFrames /\ RecvOversize(1, bytes) /\ UNCHANGED <<pingCfg, pingVars, sideVars>>
  \/ \E bytes \in 1..MaxFrameBytes : frames[1] < MaxChargeFrames /\ RecvOverLimit(1, bytes) /\ UNCHANGED <<pingCfg, pingVars, sideVars>>
  \/ \E bytes \in 1..MaxFrameBytes :
       frames[1] < MaxChargeFrames /\ RecvInvalid(1) /\ Charge(1, bytes) /\ UNCHANGED <<pingCfg, pingVars, sideVars>>
  \/ \E bytes \in 1..MaxFrameBytes : frames[1] < MaxChargeFrames /\ RecvPing(1) /\ Parsed(1, bytes)
  \/ \E bytes \in 1..MaxFrameBytes :
       frames[1] < MaxChargeFrames /\ nextRoom = 1 /\ RecvRoomCreate(1, 1) /\ Parsed(1, bytes)
  \/ ResumeCreateRoom /\ UNCHANGED auxVars
  \/ \E c \in Conns \ {1}, tok \in Jtis, bytes \in 1..MaxFrameBytes :
       /\ frames[c] = 0 /\ tokRid[tok] # None
       /\ RecvJoin(c, 1, tokRid[tok], tok) /\ Parsed(c, bytes)
  \/ ResumeMarkSet /\ UNCHANGED auxVars
  \/ ResumeMarkAdd /\ UNCHANGED auxVars
  \/ ResumeTryJoin /\ UNCHANGED auxVars
  \/ \E bytes \in 1..MaxFrameBytes :
       /\ frames[1] < MaxChargeFrames /\ ctxRoom[1] # None
       /\ RecvAppMsg(1, ctxRoom[1], "AAA", FALSE) /\ Parsed(1, bytes)

SpecCharge == Init /\ [][NextCharge]_vars

\* The router's entries over time: sockets create and join one room, leave it
\* and go down, one frame in flight each, while the entries' timers fire and
\* Redis expires keys; QR_ROTATION_MS is below or above ROOM_KEY_TTL_MS.
QrCfgs == {QR_ROTATION_MS, MaxRotation}
InitRotate ==
  /\ InitBase /\ trace = TRUE /\ pingCfg = DefaultPing /\ tokIn = NoTokIn /\ NoTb
  /\ qrCfg \in QrCfgs /\ NoShutdownHandler
Framed(c) ==
  FrameTouch(c) /\ UNCHANGED <<bucketVars, pingCfg, pingVars, codecVars, legacyVars,
                               tbVars, rotVars, sdVars>>
NextRotate ==
  \/ \E ip \in Ips : FewAdmitted /\ NextIp(ip) /\ Admit(ip) /\ UNCHANGED auxVars
  \/ \E c \in Conns : MayRecv(c) /\ nextRoom = 1 /\ RecvRoomCreate(c, 1) /\ Framed(c)
  \/ ResumeCreateRoom /\ HeadTtl /\ RouterTimers /\ UNCHANGED rotRest
  \/ \E c \in Conns, tok \in Jtis :
       MayRecv(c) /\ tokRid[tok] # None /\ RecvJoin(c, 1, tokRid[tok], tok) /\ Framed(c)
  \/ ResumeMarkSet /\ HeadTtl /\ UNCHANGED <<rotRest, rotVars>>
  \/ ResumeMarkAdd /\ HeadTtl /\ UNCHANGED <<rotRest, rotVars>>
  \/ ResumeTryJoin /\ HeadTtl /\ RouterTimers /\ UNCHANGED rotRest
  \/ \E c \in Conns : MayRecv(c) /\ ctxRoom[c] # None /\ RecvLeave(c, 1, ctxRoom[c]) /\ Framed(c)
  \/ ResumeLeave /\ HeadTtl /\ RouterTimers /\ UNCHANGED rotRest
  \/ \E c \in Conns : SocketClose(c) /\ UNCHANGED auxVars
  \/ \E c \in Conns : OnClose(c) /\ UNCHANGED auxVars
  \/ ResumeDisconnect /\ HeadTtl /\ RouterTimers /\ UNCHANGED rotRest
  \/ \E rid \in Rooms : RotateQr(rid)
  \/ NoTimerDue /\ redisQ = << >> /\ TickExpire

SpecRotate == InitRotate /\ [][NextRotate]_vars

\* The process under SIGTERM / SIGINT, with and without the shutdown handler:
\* sockets come, create a room and go, and fastify.close() may resolve, reject
\* or stay pending for ever.
InitShutdown ==
  /\ InitBase /\ trace = TRUE /\ pingCfg = DefaultPing /\ tokIn = NoTokIn /\ NoTb
  /\ qrCfg = QR_ROTATION_MS
  /\ featureShutdown \in BOOLEAN
NextShutdown ==
  \/ \E ip \in Ips : Alive /\ FewAdmitted /\ NextIp(ip) /\ Admit(ip) /\ UNCHANGED auxVars
  \/ \E c \in Conns : Alive /\ MayRecv(c) /\ nextRoom = 1 /\ RecvRoomCreate(c, 1) /\ UNCHANGED auxVars
  \/ Alive /\ ResumeCreateRoom /\ UNCHANGED auxVars
  \/ \E c \in Conns : Alive /\ SocketClose(c) /\ UNCHANGED auxVars
  \/ \E c \in Conns : Alive /\ OnClose(c) /\ UNCHANGED auxVars
  \/ Alive /\ ResumeDisconnect /\ UNCHANGED auxVars
  \/ Signal
  \/ \E ok \in BOOLEAN : CloseSettles(ok)
  \/ ForceExit
  \/ ShutdownClock
SpecShutdown == InitShutdown /\ [][NextShutdown]_vars
\* timers fire when they are due and time passes
LiveShutdown == SpecShutdown /\ WF_vars(ForceExit) /\ WF_vars(ShutdownClock)
====
